---- MODULE Spec2Model ----
(***************************************************************************)
(* Shader interface description (QShaderDescription: token tables, JSON    *)
(* encoding and decoding, implicitly shared payload) and the Null QRhi     *)
(* backend (resources, frames, passes).                                    *)
(***************************************************************************)
EXTENDS Integers, Sequences, FiniteSets, TLC

VARIABLES
    tok,        \* token tables: the last typeStr/mapType/imageFormatStr/mapImageFormat call
    cdesc,      \* codec: the description handed to toBinaryJson
    cbytes,     \* codec: the QByteArray under way
    cback,      \* codec: the description fromBinaryJson returned
    cwarned,    \* codec: whether loadDoc logged its diagnostic
    cphase,     \* codec: "built", "encoded" or "decoded"
    d,          \* objects: the d pointer of each QShaderDescription, 0 while there is none
    heap,       \* objects: the QShaderDescriptionPrivate payloads, with ref and contents
    last,       \* objects: the operation that ran last and the object it ran on
    res,        \* rhi: the resource the factory made, its parameters and its builds
    sc,         \* rhi: the swapchain, its sizes and its frame counter
    sink,       \* rhi: what was reported last to the profiling sink
    ret,        \* rhi: the call that ran last and what it returned
    tally,      \* rhi: how many events the sink got about the resource, and the frame number
    frame,      \* rhi: the swapchain whose frame is active, and the offscreen frame
    upd,        \* rhi: the resource update batch applied last and its results
    cap,        \* rhi: the capability query answered last
    thr,        \* objects: the two threads at work on copies of one description
    ex          \* example: the compute-image window, its resources and its frame

tokVars == <<tok>>
codecVars == <<cdesc, cbytes, cback, cwarned, cphase>>
objVars == <<d, heap, last, thr>>
appVars == <<ex>>
deviceVars == <<frame, upd, cap>>
rhiVars == <<res, sc, sink, ret, tally, frame, upd, cap>>
vars == <<tok, cdesc, cbytes, cback, cwarned, cphase, d, heap, last, res, sc, sink, ret,
          tally, frame, upd, cap, thr, ex>>

(***************************************************************************)
(* Bounds of the model.                                                    *)
(***************************************************************************)
\* Integer fields (location, binding, set, offset, size, strides, flags,
\* array dimensions) range up to MaxInt.
MaxInt == 2
\* Struct members nest up to MaxDepth levels below a block member.
MaxDepth == 2
\* Entries (variables and blocks) of a description built from the small samples.
MaxEntries == 2
\* QShaderDescription objects alive at a time.
MaxObjs == 2
\* Entries a payload gains by mutation.
MaxMutations == 1
\* Color attachments of a texture render target description.
MaxAttachments == 1
\* Builds of one resource.
MaxBuilds == 2
\* Release events reported about one resource.
MaxReleases == 2
\* Frames a swapchain counts.
MaxFrames == 2
\* The mip levels read back are 0..MaxLevel.
MaxLevel == 2
\* Operations of a resource update batch.
MaxOps == 2

(***************************************************************************)
(* Type and image format tables.                                           *)
(***************************************************************************)
typeTab ==
    << [k |-> "float", v |-> "Float"],
       [k |-> "vec2", v |-> "Vec2"],
       [k |-> "vec3", v |-> "Vec3"],
       [k |-> "vec4", v |-> "Vec4"],
       [k |-> "mat2", v |-> "Mat2"],
       [k |-> "mat3", v |-> "Mat3"],
       [k |-> "mat4", v |-> "Mat4"],
       [k |-> "struct", v |-> "Struct"],
       [k |-> "sampler1D", v |-> "Sampler1D"],
       [k |-> "sampler2D", v |-> "Sampler2D"],
       [k |-> "sampler2DMS", v |-> "Sampler2DMS"],
       [k |-> "sampler3D", v |-> "Sampler3D"],
       [k |-> "samplerCube", v |-> "SamplerCube"],
       [k |-> "sampler1DArray", v |-> "Sampler1DArray"],
       [k |-> "sampler2DArray", v |-> "Sampler2DArray"],
       [k |-> "sampler2DMSArray", v |-> "Sampler2DMSArray"],
       [k |-> "sampler3DArray", v |-> "Sampler3DArray"],
       [k |-> "samplerCubeArray", v |-> "SamplerCubeArray"],
       [k |-> "samplerRect", v |-> "SamplerRect"],
       [k |-> "samplerBuffer", v |-> "SamplerBuffer"],
       [k |-> "mat2x3", v |-> "Mat2x3"],
       [k |-> "mat2x4", v |-> "Mat2x4"],
       [k |-> "mat3x2", v |-> "Mat3x2"],
       [k |-> "mat3x4", v |-> "Mat3x4"],
       [k |-> "mat4x2", v |-> "Mat4x2"],
       [k |-> "mat4x3", v |-> "Mat4x3"],
       [k |-> "int", v |-> "Int"],
       [k |-> "ivec2", v |-> "Int2"],
       [k |-> "ivec3", v |-> "Int3"],
       [k |-> "ivec4", v |-> "Int4"],
       [k |-> "uint", v |-> "Uint"],
       [k |-> "uvec2", v |-> "Uint2"],
       [k |-> "uvec3", v |-> "Uint3"],
       [k |-> "uvec4", v |-> "Uint4"],
       [k |-> "bool", v |-> "Bool"],
       [k |-> "bvec2", v |-> "Bool2"],
       [k |-> "bvec3", v |-> "Bool3"],
       [k |-> "bvec4", v |-> "Bool4"],
       [k |-> "double", v |-> "Double"],
       [k |-> "dvec2", v |-> "Double2"],
       [k |-> "dvec3", v |-> "Double3"],
       [k |-> "dvec4", v |-> "Double4"],
       [k |-> "dmat2", v |-> "DMat2"],
       [k |-> "dmat3", v |-> "DMat3"],
       [k |-> "dmat4", v |-> "DMat4"],
       [k |-> "dmat2x3", v |-> "DMat2x3"],
       [k |-> "dmat2x4", v |-> "DMat2x4"],
       [k |-> "dmat3x2", v |-> "DMat3x2"],
       [k |-> "dmat3x4", v |-> "DMat3x4"],
       [k |-> "dmat4x2", v |-> "DMat4x2"],
       [k |-> "dmat4x3", v |-> "DMat4x3"],
       [k |-> "image1D", v |-> "Image1D"],
       [k |-> "image2D", v |-> "Image2D"],
       [k |-> "image2DMS", v |-> "Image2DMS"],
       [k |-> "image3D", v |-> "Image3D"],
       [k |-> "imageCube", v |-> "ImageCube"],
       [k |-> "image1DArray", v |-> "Image1DArray"],
       [k |-> "image2DArray", v |-> "Image2DArray"],
       [k |-> "image2DMSArray", v |-> "Image2DMSArray"],
       [k |-> "image3DArray", v |-> "Image3DArray"],
       [k |-> "imageCubeArray", v |-> "ImageCubeArray"],
       [k |-> "imageRect", v |-> "ImageRect"],
       [k |-> "imageBuffer", v |-> "ImageBuffer"] >>
imageFormatTab ==
    << [k |-> "unknown", v |-> "ImageFormatUnknown"],
       [k |-> "rgba32f", v |-> "ImageFormatRgba32f"],
       [k |-> "rgba16", v |-> "ImageFormatRgba16f"],
       [k |-> "r32f", v |-> "ImageFormatR32f"],
       [k |-> "rgba8", v |-> "ImageFormatRgba8"],
       [k |-> "rgba8_snorm", v |-> "ImageFormatRgba8Snorm"],
       [k |-> "rg32f", v |-> "ImageFormatRg32f"],
       [k |-> "rg16f", v |-> "ImageFormatRg16f"],
       [k |-> "r11f_g11f_b10f", v |-> "ImageFormatR11fG11fB10f"],
       [k |-> "r16f", v |-> "ImageFormatR16f"],
       [k |-> "rgba16", v |-> "ImageFormatRgba16"],
       [k |-> "rgb10_a2", v |-> "ImageFormatRgb10A2"],
       [k |-> "rg16", v |-> "ImageFormatRg16"],
       [k |-> "rg8", v |-> "ImageFormatRg8"],
       [k |-> "r16", v |-> "ImageFormatR16"],
       [k |-> "r8", v |-> "ImageFormatR8"],
       [k |-> "rgba16_snorm", v |-> "ImageFormatRgba16Snorm"],
       [k |-> "rg16_snorm", v |-> "ImageFormatRg16Snorm"],
       [k |-> "rg8_snorm", v |-> "ImageFormatRg8Snorm"],
       [k |-> "r16_snorm", v |-> "ImageFormatR16Snorm"],
       [k |-> "r8_snorm", v |-> "ImageFormatR8Snorm"],
       [k |-> "rgba32i", v |-> "ImageFormatRgba32i"],
       [k |-> "rgba16i", v |-> "ImageFormatRgba16i"],
       [k |-> "rgba8i", v |-> "ImageFormatRgba8i"],
       [k |-> "r32i", v |-> "ImageFormatR32i"],
       [k |-> "rg32i", v |-> "ImageFormatRg32i"],
       [k |-> "rg16i", v |-> "ImageFormatRg16i"],
       [k |-> "rg8i", v |-> "ImageFormatRg8i"],
       [k |-> "r16i", v |-> "ImageFormatR16i"],
       [k |-> "r8i", v |-> "ImageFormatR8i"],
       [k |-> "rgba32ui", v |-> "ImageFormatRgba32ui"],
       [k |-> "rgba16ui", v |-> "ImageFormatRgba16ui"],
       [k |-> "rgba8ui", v |-> "ImageFormatRgba8ui"],
       [k |-> "r32ui", v |-> "ImageFormatR32ui"],
       [k |-> "rgb10_a2ui", v |-> "ImageFormatRgb10a2ui"],
       [k |-> "rg32ui", v |-> "ImageFormatRg32ui"],
       [k |-> "rg16ui", v |-> "ImageFormatRg16ui"],
       [k |-> "rg8ui", v |-> "ImageFormatRg8ui"],
       [k |-> "r16ui", v |-> "ImageFormatR16ui"],
       [k |-> "r8ui", v |-> "ImageFormatR8ui"] >>

\* QShaderDescription::VariableType: Unknown and the enumerators of typeTab.
VariableTypes == {"Unknown"} \cup {typeTab[i].v : i \in 1..Len(typeTab)}

\* QShaderDescription::ImageFormat: the enumerators of imageFormatTab.
ImageFormats == {imageFormatTab[i].v : i \in 1..Len(imageFormatTab)}

\* The loop of typeStr and imageFormatStr: the key of the first entry from i on
\* whose value is t, QString() (the empty string) when there is none.
RECURSIVE keyOf(_, _, _)
keyOf(tab, i, t) ==
    IF i > Len(tab) THEN ""
    ELSE IF tab[i].v = t THEN tab[i].k
    ELSE keyOf(tab, i + 1, t)

\* The loop of mapType and mapImageFormat: the value of the first entry from i on
\* whose key is s, the given fallback when there is none.
RECURSIVE valueOf(_, _, _, _)
valueOf(tab, i, s, unknown) ==
    IF i > Len(tab) THEN unknown
    ELSE IF tab[i].k = s THEN tab[i].v
    ELSE valueOf(tab, i + 1, s, unknown)

typeStr(t) == keyOf(typeTab, 1, t)

mapTypeFirstEntry(s) == valueOf(typeTab, 1, s, typeTab[1].v)
mapType(s) == valueOf(typeTab, 1, s, "Unknown")

imageFormatStr(f) == keyOf(imageFormatTab, 1, f)

mapImageFormat(s) == valueOf(imageFormatTab, 1, s, "ImageFormatUnknown")


(***************************************************************************)
(* QJsonValue, QJsonObject, QJsonArray, QJsonDocument.                     *)
(***************************************************************************)
JUndefined == [t |-> "undefined"]
JDouble(n) == [t |-> "double", v |-> n]
JString(s) == [t |-> "string", v |-> s]
JBool(b) == [t |-> "bool", v |-> b]
JArray(a) == [t |-> "array", v |-> a]
JObject(o) == [t |-> "object", v |-> o]

\* QJsonObject(): no keys.
EmptyObject == <<>>

\* obj[key] = value
insert(obj, key, value) == (key :> value) @@ obj

\* obj.contains(key)
contains(obj, key) == key \in DOMAIN obj

\* obj[key] read: QJsonValue::Undefined for a key the object does not hold.
value(obj, key) == IF key \in DOMAIN obj THEN obj[key] ELSE JUndefined

\* QJsonValue::toInt, toString, toBool, toArray, toObject: the default of the
\* type when the value is of another type.
toInt(j) == IF j.t = "double" THEN j.v ELSE 0
toString(j) == IF j.t = "string" THEN j.v ELSE ""
toBool(j) == IF j.t = "bool" THEN j.v ELSE FALSE
toArray(j) == IF j.t = "array" THEN j.v ELSE <<>>
toObject(j) == IF j.t = "object" THEN j.v ELSE EmptyObject

\* QJsonDocument(root), the null QJsonDocument(), isNull() and object().
JsonDocument(root) == [null |-> FALSE, root |-> root]
NullDocument == [null |-> TRUE, root |-> EmptyObject]
isNull(doc) == doc.null
object(doc) == IF doc.null THEN EmptyObject ELSE doc.root

\* A QByteArray of binary JSON: the header's tag and version, whether the
\* payload passes the validity check, and the payload's root object.
BinaryFormatTag == "qbjs"
BinaryFormatVersion == 1
EmptyByteArray == [size |-> 0, tag |-> "", version |-> 0, valid |-> FALSE, body |-> EmptyObject]

\* QJsonDocument::toBinaryData
toBinaryData(doc) ==
    IF isNull(doc) THEN EmptyByteArray
    ELSE [size |-> 1, tag |-> BinaryFormatTag, version |-> BinaryFormatVersion,
          valid |-> TRUE, body |-> doc.root]

\* QJsonDocument::fromBinaryData: the null document unless the data holds the
\* header with the right tag and version and a payload that validates.
fromBinaryData(data) ==
    IF data.size = 0 \/ data.tag # BinaryFormatTag
       \/ data.version # BinaryFormatVersion \/ ~data.valid
    THEN NullDocument
    ELSE JsonDocument(data.body)

\* QJsonDocument::fromRawData(..., BypassValidation): the payload as it is.
fromRawDataBypassValidation(data) == JsonDocument(data.body)

(***************************************************************************)
(* The description's value types and their default member values.          *)
(***************************************************************************)
DefaultInOutVariable ==
    [name |-> "", type |-> "Unknown", location |-> -1, binding |-> -1,
     descriptorSet |-> -1, imageFormat |-> "ImageFormatUnknown", imageFlags |-> 0]

DefaultBlockVariable ==
    [name |-> "", type |-> "Unknown", offset |-> 0, size |-> 0, arrayDims |-> <<>>,
     arrayStride |-> 0, matrixStride |-> 0, matrixIsRowMajor |-> FALSE,
     structMembers |-> <<>>]

DefaultUniformBlock ==
    [blockName |-> "", structName |-> "", size |-> 0, binding |-> -1,
     descriptorSet |-> -1, members |-> <<>>]

DefaultPushConstantBlock == [name |-> "", size |-> 0, members |-> <<>>]

DefaultStorageBlock ==
    [blockName |-> "", instanceName |-> "", knownSize |-> 0, binding |-> -1,
     descriptorSet |-> -1, members |-> <<>>]

\* new QShaderDescriptionPrivate: the seven collections, all empty.
NewPrivate ==
    [inVars |-> <<>>, outVars |-> <<>>, uniformBlocks |-> <<>>,
     pushConstantBlocks |-> <<>>, storageBlocks |-> <<>>,
     combinedImageSamplers |-> <<>>, storageImages |-> <<>>]

\* QShaderDescription::isValid
isValidNoImages(p) ==
    \/ p.inVars # <<>> \/ p.outVars # <<>>
    \/ p.uniformBlocks # <<>> \/ p.pushConstantBlocks # <<>> \/ p.storageBlocks # <<>>
    \/ p.combinedImageSamplers # <<>>
isValid(p) ==
    \/ p.inVars # <<>> \/ p.outVars # <<>>
    \/ p.uniformBlocks # <<>> \/ p.pushConstantBlocks # <<>> \/ p.storageBlocks # <<>>
    \/ p.combinedImageSamplers # <<>> \/ p.storageImages # <<>>

(***************************************************************************)
(* The document's keys.                                                    *)
(***************************************************************************)
nameKey == "name"
typeKey == "type"
locationKey == "location"
bindingKey == "binding"
setKey == "set"
imageFormatKey == "imageFormat"
imageFlagsKey == "imageFlags"
offsetKey == "offset"
arrayDimsKey == "arrayDims"
arrayStrideKey == "arrayStride"
matrixStrideKey == "matrixStride"
matrixRowMajorKey == "matrixRowMajor"
structMembersKey == "structMembers"
membersKey == "members"
inputsKey == "inputs"
outputsKey == "outputs"
uniformBlocksKey == "uniformBlocks"
blockNameKey == "blockName"
structNameKey == "structName"
instanceNameKey == "instanceName"
sizeKey == "size"
knownSizeKey == "knownSize"
pushConstantBlocksKey == "pushConstantBlocks"
storageBlocksKey == "storageBlocks"
combinedImageSamplersKey == "combinedImageSamplers"
storageImagesKey == "storageImages"

(***************************************************************************)
(* Encoding: the description to its document.                              *)
(***************************************************************************)
\* addDeco with the location written whenever it is not below the sentinel.
addDecoAlways(obj, v) ==
    LET o1 == IF v.location >= -1 THEN insert(obj, locationKey, JDouble(v.location)) ELSE obj
        o2 == IF v.binding >= 0 THEN insert(o1, bindingKey, JDouble(v.binding)) ELSE o1
        o3 == IF v.descriptorSet >= 0 THEN insert(o2, setKey, JDouble(v.descriptorSet)) ELSE o2
        o4 == IF v.imageFormat # "ImageFormatUnknown"
              THEN insert(o3, imageFormatKey, JString(imageFormatStr(v.imageFormat))) ELSE o3
        o5 == IF v.imageFlags # 0 THEN insert(o4, imageFlagsKey, JDouble(v.imageFlags)) ELSE o4
    IN o5

addDeco(obj, v) ==
    LET o1 == IF v.location >= 0 THEN insert(obj, locationKey, JDouble(v.location)) ELSE obj
        o2 == IF v.binding >= 0 THEN insert(o1, bindingKey, JDouble(v.binding)) ELSE o1
        o3 == IF v.descriptorSet >= 0 THEN insert(o2, setKey, JDouble(v.descriptorSet)) ELSE o2
        o4 == IF v.imageFormat # "ImageFormatUnknown"
              THEN insert(o3, imageFormatKey, JString(imageFormatStr(v.imageFormat))) ELSE o3
        o5 == IF v.imageFlags # 0 THEN insert(o4, imageFlagsKey, JDouble(v.imageFlags)) ELSE o4
    IN o5

inOutObject(v) ==
    addDeco(insert(insert(EmptyObject, nameKey, JString(v.name)),
                   typeKey, JString(typeStr(v.type))), v)

\* The fields blockMemberObject writes ahead of structMembers, matrixStride
\* among them when stride holds.
memberFieldsWith(v, stride) ==
    LET o1 == insert(EmptyObject, nameKey, JString(v.name))
        o2 == insert(o1, typeKey, JString(typeStr(v.type)))
        o3 == insert(o2, offsetKey, JDouble(v.offset))
        o4 == insert(o3, sizeKey, JDouble(v.size))
        o5 == IF v.arrayDims # <<>>
              THEN insert(o4, arrayDimsKey,
                          JArray([i \in 1..Len(v.arrayDims) |-> JDouble(v.arrayDims[i])]))
              ELSE o4
        o6 == IF v.arrayStride # 0 THEN insert(o5, arrayStrideKey, JDouble(v.arrayStride)) ELSE o5
        o7 == IF stride THEN insert(o6, matrixStrideKey, JDouble(v.matrixStride)) ELSE o6
        o8 == IF v.matrixIsRowMajor THEN insert(o7, matrixRowMajorKey, JBool(TRUE)) ELSE o7
    IN o8

\* blockMemberObject with matrixStride written for every member.
RECURSIVE blockMemberObjectStride(_)
blockMemberObjectStride(v) ==
    LET o8 == memberFieldsWith(v, TRUE)
    IN IF v.structMembers # <<>>
       THEN insert(o8, structMembersKey,
                   JArray([i \in 1..Len(v.structMembers) |->
                              JObject(blockMemberObjectStride(v.structMembers[i]))]))
       ELSE o8

\* blockMemberObject with the struct members of a struct member left out.
blockMemberObjectFlat(v) ==
    LET o8 == memberFieldsWith(v, v.matrixStride # 0)
    IN IF v.structMembers # <<>>
       THEN insert(o8, structMembersKey,
                   JArray([i \in 1..Len(v.structMembers) |->
                              JObject(memberFieldsWith(v.structMembers[i],
                                                         v.structMembers[i].matrixStride # 0))]))
       ELSE o8

RECURSIVE blockMemberObject(_)
blockMemberObject(v) ==
    LET o1 == insert(EmptyObject, nameKey, JString(v.name))
        o2 == insert(o1, typeKey, JString(typeStr(v.type)))
        o3 == insert(o2, offsetKey, JDouble(v.offset))
        o4 == insert(o3, sizeKey, JDouble(v.size))
        o5 == IF v.arrayDims # <<>>
              THEN insert(o4, arrayDimsKey,
                          JArray([i \in 1..Len(v.arrayDims) |-> JDouble(v.arrayDims[i])]))
              ELSE o4
        o6 == IF v.arrayStride # 0 THEN insert(o5, arrayStrideKey, JDouble(v.arrayStride)) ELSE o5
        o7 == IF v.matrixStride # 0 THEN insert(o6, matrixStrideKey, JDouble(v.matrixStride)) ELSE o6
        o8 == IF v.matrixIsRowMajor THEN insert(o7, matrixRowMajorKey, JBool(TRUE)) ELSE o7
    IN IF v.structMembers # <<>>
       THEN insert(o8, structMembersKey,
                   JArray([i \in 1..Len(v.structMembers) |->
                              JObject(blockMemberObject(v.structMembers[i]))]))
       ELSE o8

\* The members array of a block.
membersArray(members) ==
    JArray([i \in 1..Len(members) |-> JObject(blockMemberObject(members[i]))])

\* One element of juniformBlocks, jpushConstantBlocks and jstorageBlocks.
uniformBlockObject(b) ==
    LET o1 == insert(EmptyObject, blockNameKey, JString(b.blockName))
        o2 == insert(o1, structNameKey, JString(b.structName))
        o3 == insert(o2, sizeKey, JDouble(b.size))
        o4 == IF b.binding >= 0 THEN insert(o3, bindingKey, JDouble(b.binding)) ELSE o3
        o5 == IF b.descriptorSet >= 0 THEN insert(o4, setKey, JDouble(b.descriptorSet)) ELSE o4
    IN insert(o5, membersKey, membersArray(b.members))

pushConstantBlockObject(b) ==
    LET o1 == insert(EmptyObject, nameKey, JString(b.name))
        o2 == insert(o1, sizeKey, JDouble(b.size))
    IN insert(o2, membersKey, membersArray(b.members))

storageBlockObject(b) ==
    LET o1 == insert(EmptyObject, blockNameKey, JString(b.blockName))
        o2 == insert(o1, instanceNameKey, JString(b.instanceName))
        o3 == insert(o2, knownSizeKey, JDouble(b.knownSize))
        o4 == IF b.binding >= 0 THEN insert(o3, bindingKey, JDouble(b.binding)) ELSE o3
        o5 == IF b.descriptorSet >= 0 THEN insert(o4, setKey, JDouble(b.descriptorSet)) ELSE o4
    IN insert(o5, membersKey, membersArray(b.members))

\* One element of jcombinedSamplers and jstorageImages.
samplerObject(v) ==
    addDeco(insert(insert(EmptyObject, nameKey, JString(v.name)),
                   typeKey, JString(typeStr(v.type))), v)

\* root[key] = array with the test for emptiness taken away.
insertArrayAlways(root, key, arr) == insert(root, key, JArray(arr))

\* root[key] = array, when the array is not empty.
insertArray(root, key, arr) ==
    IF arr # <<>> THEN insert(root, key, JArray(arr)) ELSE root

\* QShaderDescriptionPrivate::makeDoc
makeDoc(p) ==
    LET objs(f(_), s) == [i \in 1..Len(s) |-> JObject(f(s[i]))]
        r1 == insertArray(EmptyObject, inputsKey, objs(inOutObject, p.inVars))
        r2 == insertArray(r1, outputsKey, objs(inOutObject, p.outVars))
        r3 == insertArray(r2, uniformBlocksKey, objs(uniformBlockObject, p.uniformBlocks))
        r4 == insertArray(r3, pushConstantBlocksKey,
                          objs(pushConstantBlockObject, p.pushConstantBlocks))
        r5 == insertArray(r4, storageBlocksKey, objs(storageBlockObject, p.storageBlocks))
        r6 == insertArray(r5, combinedImageSamplersKey,
                          objs(samplerObject, p.combinedImageSamplers))
        r7 == insertArray(r6, storageImagesKey, objs(samplerObject, p.storageImages))
    IN JsonDocument(r7)

\* QShaderDescription::toBinaryJson
toBinaryJson(p) == toBinaryData(makeDoc(p))

(***************************************************************************)
(* Decoding: the document to the description.                              *)
(***************************************************************************)
inOutVar(obj) ==
    LET v0 == [DefaultInOutVariable EXCEPT
                  !.name = toString(value(obj, nameKey)),
                  !.type = mapType(toString(value(obj, typeKey)))]
        v1 == IF contains(obj, locationKey)
              THEN [v0 EXCEPT !.location = toInt(obj[locationKey])] ELSE v0
        v2 == IF contains(obj, bindingKey)
              THEN [v1 EXCEPT !.binding = toInt(obj[bindingKey])] ELSE v1
        v3 == IF contains(obj, setKey)
              THEN [v2 EXCEPT !.descriptorSet = toInt(obj[setKey])] ELSE v2
        v4 == IF contains(obj, imageFormatKey)
              THEN [v3 EXCEPT !.imageFormat = mapImageFormat(toString(obj[imageFormatKey]))]
              ELSE v3
        v5 == IF contains(obj, imageFlagsKey)
              THEN [v4 EXCEPT !.imageFlags = toInt(obj[imageFlagsKey])] ELSE v4
    IN v5

RECURSIVE blockVar(_)
blockVar(obj) ==
    LET v0 == [DefaultBlockVariable EXCEPT
                  !.name = toString(value(obj, nameKey)),
                  !.type = mapType(toString(value(obj, typeKey))),
                  !.offset = toInt(value(obj, offsetKey)),
                  !.size = toInt(value(obj, sizeKey))]
        v1 == IF contains(obj, arrayDimsKey)
              THEN [v0 EXCEPT !.arrayDims =
                       LET dimArr == toArray(obj[arrayDimsKey])
                       IN [i \in 1..Len(dimArr) |-> toInt(dimArr[i])]]
              ELSE v0
        v2 == IF contains(obj, arrayStrideKey)
              THEN [v1 EXCEPT !.arrayStride = toInt(obj[arrayStrideKey])] ELSE v1
        v3 == IF contains(obj, matrixStrideKey)
              THEN [v2 EXCEPT !.matrixStride = toInt(obj[matrixStrideKey])] ELSE v2
        v4 == IF contains(obj, matrixRowMajorKey)
              THEN [v3 EXCEPT !.matrixIsRowMajor = toBool(obj[matrixRowMajorKey])] ELSE v3
    IN IF contains(obj, structMembersKey)
       THEN [v4 EXCEPT !.structMembers =
                LET arr == toArray(obj[structMembersKey])
                IN [i \in 1..Len(arr) |-> blockVar(toObject(arr[i]))]]
       ELSE v4

\* The members of a decoded block.
blockMembers(obj) ==
    LET members == toArray(value(obj, membersKey))
    IN [i \in 1..Len(members) |-> blockVar(toObject(members[i]))]

\* One element of the loops of loadDoc over uniformBlocks, pushConstantBlocks
\* and storageBlocks.
uniformBlockVar(ubObj) ==
    LET b0 == [DefaultUniformBlock EXCEPT
                  !.blockName = toString(value(ubObj, blockNameKey)),
                  !.structName = toString(value(ubObj, structNameKey)),
                  !.size = toInt(value(ubObj, sizeKey))]
        b1 == IF contains(ubObj, bindingKey)
              THEN [b0 EXCEPT !.binding = toInt(ubObj[bindingKey])] ELSE b0
        b2 == IF contains(ubObj, setKey)
              THEN [b1 EXCEPT !.descriptorSet = toInt(ubObj[setKey])] ELSE b1
    IN [b2 EXCEPT !.members = blockMembers(ubObj)]

pushConstantBlockVar(pcObj) ==
    [DefaultPushConstantBlock EXCEPT
        !.name = toString(value(pcObj, nameKey)),
        !.size = toInt(value(pcObj, sizeKey)),
        !.members = blockMembers(pcObj)]

storageBlockVar(sbObj) ==
    LET b0 == [DefaultStorageBlock EXCEPT
                  !.blockName = toString(value(sbObj, blockNameKey)),
                  !.instanceName = toString(value(sbObj, instanceNameKey)),
                  !.knownSize = toInt(value(sbObj, knownSizeKey))]
        b1 == IF contains(sbObj, bindingKey)
              THEN [b0 EXCEPT !.binding = toInt(sbObj[bindingKey])] ELSE b0
        b2 == IF contains(sbObj, setKey)
              THEN [b1 EXCEPT !.descriptorSet = toInt(sbObj[setKey])] ELSE b1
    IN [b2 EXCEPT !.members = blockMembers(sbObj)]

\* The collection loadDoc reads from root[key]: empty when the key is absent.
loadArray(root, key, f(_)) ==
    IF contains(root, key)
    THEN LET arr == toArray(root[key])
         IN [i \in 1..Len(arr) |-> f(toObject(arr[i]))]
    ELSE <<>>

\* QShaderDescriptionPrivate::loadDoc on the payload p: p as it was for a null
\* document, else the collections cleared and read from the document.
loadDoc(p, doc) ==
    IF isNull(doc) THEN p
    ELSE LET root == object(doc)
         IN [inVars |-> loadArray(root, inputsKey, inOutVar),
             outVars |-> loadArray(root, outputsKey, inOutVar),
             uniformBlocks |-> loadArray(root, uniformBlocksKey, uniformBlockVar),
             pushConstantBlocks |-> loadArray(root, pushConstantBlocksKey, pushConstantBlockVar),
             storageBlocks |-> loadArray(root, storageBlocksKey, storageBlockVar),
             combinedImageSamplers |-> loadArray(root, combinedImageSamplersKey, inOutVar),
             storageImages |-> loadArray(root, storageImagesKey, inOutVar)]

\* The qWarning of loadDoc.
loadDocWarns(doc) == isNull(doc)

\* QShaderDescription::fromBinaryJson with the document taken unvalidated.
fromBinaryJsonUnvalidated(data) == loadDoc(NewPrivate, fromRawDataBypassValidation(data))

\* QShaderDescription::fromBinaryJson: the payload of the description returned.
fromBinaryJson(data) == loadDoc(NewPrivate, fromBinaryData(data))

\* What the document of the bytes is: null, an empty root object, or entries.
DocKind(data) ==
    IF isNull(fromBinaryData(data)) THEN "null"
    ELSE IF object(fromBinaryData(data)) = EmptyObject THEN "empty"
    ELSE "entries"

\* The QShaderDescription objects and the memory of their payloads.
Objs == 1..MaxObjs
PayloadIds == 1..MaxObjs

\* Memory that holds no payload.
FreePayload == [state |-> "free", ref |-> 0, data |-> NewPrivate]

\* QSize, the size of a default-constructed one, and QSize::isEmpty.
QSize(w, h) == [w |-> w, h |-> h]
InvalidSize == QSize(-1, -1)
QSize_isEmpty(s) == s.w < 1 \/ s.h < 1

\* A pointer to a texture or render buffer, by the pixel size it holds.
NullPtr == [null |-> TRUE, pixelSize |-> InvalidSize]
PtrTo(s) == [null |-> FALSE, pixelSize |-> s]

\* Construction parameters: the fields the backend reads, of every kind.
NoParams ==
    [size |-> 0, pixelSize |-> InvalidSize, cube |-> FALSE, mip |-> FALSE,
     colorAttachments |-> <<>>, depthStencilBuffer |-> NullPtr, depthTexture |-> NullPtr]

NoResource == [kind |-> "none", params |-> NoParams, builds |-> 0, pixelSize |-> InvalidSize]
NoSwapChain ==
    [made |-> FALSE, currentPixelSize |-> InvalidSize, rtPixelSize |-> InvalidSize,
     frameCount |-> 0, builds |-> 0]
NoEvent == [ev |-> "none", args |-> <<>>]

\* Nothing reported yet: the creation and the release events about the
\* resource, and the frame number endFrame reported last.
NoTally == [news |-> 0, releases |-> 0, frameNo |-> 0]

\* QRhiNull::currentSwapChain is null, no offscreen frame was begun, and no
\* endFrame completed since the swapchain was built.
NoFrame ==
    [currentSwapChain |-> "nullptr", offscreen |-> FALSE, ended |-> 0,
     begunOn |-> "nullptr", otherFrames |-> 0]

\* A swapchain frame is active: a beginFrame was called and no endFrame
\* since; frame.begunOn is the swapchain that beginFrame was handed.
FrameActive == frame.begunOn # "nullptr"

\* currentSwapChain is not null.
HasCurrentSwapChain == frame.currentSwapChain # "nullptr"

\* No resource update batch was handed to a pass call yet.
NoUpdate == [passed |-> "none", batch |-> <<>>, results |-> <<>>, freed |-> 0]

\* No capability was queried yet.
NoQuery == [query |-> "none", arg |-> "none", yes |-> FALSE, limit |-> 0]

\* The compute-image window before customInit: nothing created, no batch,
\* no frame recorded.
NoExample ==
    [pc |-> "none", i |-> 0, created |-> {}, built |-> {}, releasePool |-> <<>>,
     initialUpdates |-> "nullptr", initial |-> {}, u |-> {}, merged |-> 0, mergedIn |-> 0,
     released |-> 0, frames |-> 0, projStale |-> TRUE, cmds |-> <<>>,
     cb |-> [pass |-> "none", compute |-> FALSE, graphics |-> FALSE, misuse |-> "none"]]

\* No resource and no swapchain exist, nothing was reported or returned.
DeviceAtRest ==
    /\ res = NoResource
    /\ sc = NoSwapChain
    /\ sink = NoEvent
    /\ ret = [op |-> "none", result |-> "none"]
    /\ tally = NoTally
    /\ frame = NoFrame
    /\ upd = NoUpdate
    /\ cap = NoQuery

\* The device at rest and the example window not started.
RhiAtRest == DeviceAtRest /\ ex = NoExample

\* No thread is at work: the detaching thread and the reading thread between
\* two calls, nothing read, nothing gone wrong.
NoThreads ==
    [a |-> [pc |-> "idle", x |-> 0, muts |-> 0],
     b |-> [pc |-> "idle", x |-> 0],
     orig |-> NewPrivate, seen |-> [what |-> "none", after |-> 0], fault |-> "none"]

\* No QShaderDescription object exists and no payload is allocated.
ObjectsAtRest ==
    /\ d = [o \in Objs |-> 0]
    /\ heap = [p \in PayloadIds |-> FreePayload]
    /\ last = [op |-> "none", obj |-> 0, doc |-> "none", shared |-> FALSE]
    /\ thr = NoThreads

(***************************************************************************)
(* The token tables under call: SpecTokens.                                *)
(***************************************************************************)
TypeTokens == {typeTab[i].k : i \in 1..Len(typeTab)}
FormatTokens == {imageFormatTab[i].k : i \in 1..Len(imageFormatTab)}

\* A value of the enumeration's underlying type that names no enumerator.
NoEnumerator == "ImageFormat(-1)"

\* The strings handed to mapType and mapImageFormat: every token of both
\* tables and strings that are tokens of neither.
TokenStrings ==
    TypeTokens \cup FormatTokens \cup {"", "Vec3", "vec5", "rgba16f", "RGBA8", "sampler"}

TokIdle == [op |-> "idle", enum |-> "", str |-> "", back |-> ""]

TypeStrCall(t) ==
    /\ tok' = [op |-> "typeStr", enum |-> t, str |-> typeStr(t), back |-> ""]
    /\ UNCHANGED <<appVars, codecVars, objVars, rhiVars>>

\* mapType on the token typeStr has just returned.
MapTypeBack ==
    /\ tok.op = "typeStr"
    /\ tok' = [tok EXCEPT !.op = "typeStr-mapType", !.back = mapType(tok.str)]
    /\ UNCHANGED <<appVars, codecVars, objVars, rhiVars>>

MapTypeCall(s) ==
    /\ tok' = [op |-> "mapType", enum |-> "", str |-> s, back |-> mapType(s)]
    /\ UNCHANGED <<appVars, codecVars, objVars, rhiVars>>

ImageFormatStrCall(f) ==
    /\ tok' = [op |-> "imageFormatStr", enum |-> f, str |-> imageFormatStr(f), back |-> ""]
    /\ UNCHANGED <<appVars, codecVars, objVars, rhiVars>>

\* mapImageFormat on the token imageFormatStr has just returned.
MapImageFormatBack ==
    /\ tok.op = "imageFormatStr"
    /\ tok' = [tok EXCEPT !.op = "imageFormatStr-mapImageFormat",
                          !.back = mapImageFormat(tok.str)]
    /\ UNCHANGED <<appVars, codecVars, objVars, rhiVars>>

MapImageFormatCall(s) ==
    /\ tok' = [op |-> "mapImageFormat", enum |-> "", str |-> s, back |-> mapImageFormat(s)]
    /\ UNCHANGED <<appVars, codecVars, objVars, rhiVars>>

CodecAtRest ==
    /\ cdesc = NewPrivate
    /\ cbytes = EmptyByteArray
    /\ cback = NewPrivate
    /\ cwarned = FALSE
    /\ cphase = "built"

InitTokens == tok = TokIdle /\ CodecAtRest /\ ObjectsAtRest /\ RhiAtRest

NextTokens ==
    \/ \E t \in VariableTypes : TypeStrCall(t)
    \/ MapTypeBack
    \/ \E s \in TokenStrings : MapTypeCall(s)
    \/ \E f \in ImageFormats \cup {NoEnumerator} : ImageFormatStrCall(f)
    \/ MapImageFormatBack
    \/ \E s \in TokenStrings : MapImageFormatCall(s)

SpecTokens == InitTokens /\ [][NextTokens]_vars

\* C2: for every variable type t other than Unknown, mapType(typeStr(t)) = t, and
\* for every image format f other than ImageFormatUnknown,
\* mapImageFormat(imageFormatStr(f)) = f.
TokenTotality ==
    /\ (tok.op = "typeStr-mapType" /\ tok.enum # "Unknown") => tok.back = tok.enum
    /\ (tok.op = "imageFormatStr-mapImageFormat"
            /\ tok.enum \in ImageFormats \ {"ImageFormatUnknown"})
        => tok.back = tok.enum

\* C7: mapType returns Unknown for every string that is no token of the type
\* table, mapImageFormat returns ImageFormatUnknown for every string that is no
\* token of the format table, and typeStr and imageFormatStr return the empty
\* token for a value without a table entry.
UnknownTokensNeverFatal ==
    /\ (tok.op = "mapType" /\ tok.str \notin TypeTokens) => tok.back = "Unknown"
    /\ (tok.op = "mapImageFormat" /\ tok.str \notin FormatTokens)
        => tok.back = "ImageFormatUnknown"
    /\ (tok.op = "typeStr" /\ \A i \in 1..Len(typeTab) : typeTab[i].v # tok.enum)
        => tok.str = ""
    /\ (tok.op = "imageFormatStr"
            /\ \A i \in 1..Len(imageFormatTab) : imageFormatTab[i].v # tok.enum)
        => tok.str = ""

\* C7's case: a string that is a token of the format table only went through
\* mapType and came back as Unknown.
UnknownTokenMapped ==
    /\ tok.op = "mapType"
    /\ tok.str = "rgba8"
    /\ tok.back = "Unknown"

(***************************************************************************)
(* The descriptions handed to the codec.                                   *)
(***************************************************************************)
InOutCollections == {"inVars", "outVars", "combinedImageSamplers", "storageImages"}
BlockCollections == {"uniformBlocks", "pushConstantBlocks", "storageBlocks"}
Collections == InOutCollections \cup BlockCollections

\* A field that -1 marks absent: -1 and the two ends of 0..MaxInt.
OptionalInts == {-1, 0, MaxInt}

\* Stage variables: every type, every image format, and the combinations of
\* present and absent decorations.
InOutSamples ==
    {[DefaultInOutVariable EXCEPT !.name = "v", !.type = t] : t \in VariableTypes}
    \cup {[DefaultInOutVariable EXCEPT !.name = "img", !.type = "Image2D",
                                        !.binding = 0, !.imageFormat = f] :
             f \in ImageFormats}
    \cup {[name |-> "tex", type |-> "Sampler2D", location |-> l, binding |-> b,
           descriptorSet |-> ds, imageFormat |-> f, imageFlags |-> g] :
             l \in OptionalInts, b \in OptionalInts, ds \in OptionalInts,
             f \in {"ImageFormatUnknown", "ImageFormatRgba8"}, g \in {0, MaxInt}}

\* Block members without struct members: every type, and the combinations of
\* present and absent layout fields.
LeafMembers ==
    {[DefaultBlockVariable EXCEPT !.name = "m", !.type = t] : t \in VariableTypes}
    \cup {[name |-> "m", type |-> "Mat4", offset |-> o, size |-> z, arrayDims |-> dims,
           arrayStride |-> ast, matrixStride |-> mst, matrixIsRowMajor |-> rm,
           structMembers |-> <<>>] :
             o \in {0, MaxInt}, z \in {0, MaxInt},
             dims \in {<<>>, <<0>>, <<MaxInt>>, <<MaxInt, 0>>},
             ast \in {0, MaxInt}, mst \in {0, MaxInt}, rm \in BOOLEAN}

LeafA == [DefaultBlockVariable EXCEPT !.name = "a", !.type = "Vec2", !.size = MaxInt]
LeafB == [DefaultBlockVariable EXCEPT !.name = "b", !.type = "Float",
                                      !.offset = MaxInt, !.size = 1]

StructMember(o, members) ==
    [DefaultBlockVariable EXCEPT !.name = "s", !.type = "Struct", !.offset = o,
                                 !.size = Len(members), !.structMembers = members]

\* Members whose struct members nest exactly depth levels.
RECURSIVE NestedMembers(_)
NestedMembers(depth) ==
    IF depth = 0 THEN {LeafA, LeafB}
    ELSE {StructMember(o, <<x>>) : o \in {0, MaxInt}, x \in NestedMembers(depth - 1)}
         \cup {StructMember(0, <<LeafA, x>>) : x \in NestedMembers(depth - 1)}

\* A member whose offset and size are below 0, as a document can hold them.
LeafBelowZero == [DefaultBlockVariable EXCEPT !.name = "n", !.type = "Float",
                                              !.offset = -1, !.size = -1]

MemberSamples ==
    LeafMembers \cup UNION {NestedMembers(k) : k \in 1..MaxDepth} \cup {LeafBelowZero}

UniformBlockSamples ==
    {[blockName |-> "buf", structName |-> "ubuf", size |-> z, binding |-> b,
      descriptorSet |-> ds, members |-> ms] :
        z \in {-1, 0, MaxInt}, b \in OptionalInts, ds \in OptionalInts,
        ms \in {<<>>, <<LeafA, LeafB>>}}
    \cup {[DefaultUniformBlock EXCEPT !.blockName = "buf", !.members = <<m>>] :
             m \in MemberSamples}

PushConstantBlockSamples ==
    {[name |-> "pc", size |-> z, members |-> ms] :
        z \in {0, MaxInt}, ms \in {<<>>, <<LeafA, LeafB>>}}
    \cup {[DefaultPushConstantBlock EXCEPT !.name = "pc", !.members = <<m>>] :
             m \in MemberSamples}

StorageBlockSamples ==
    {[blockName |-> "StuffSsbo", instanceName |-> "buf", knownSize |-> z, binding |-> b,
      descriptorSet |-> ds, members |-> ms] :
        z \in {-1, 0, MaxInt}, b \in OptionalInts, ds \in OptionalInts,
        ms \in {<<>>, <<LeafA, LeafB>>}}
    \cup {[DefaultStorageBlock EXCEPT !.blockName = "StuffSsbo", !.members = <<m>>] :
             m \in MemberSamples}

EntrySamples(c) ==
    CASE c \in InOutCollections -> InOutSamples
      [] c = "uniformBlocks" -> UniformBlockSamples
      [] c = "pushConstantBlocks" -> PushConstantBlockSamples
      [] c = "storageBlocks" -> StorageBlockSamples

\* The description of the class documentation's example: input color and
\* uniform block buf with members mvp and opacity.
ExampleDesc ==
    [NewPrivate EXCEPT
        !.inVars = << [DefaultInOutVariable EXCEPT !.name = "color", !.type = "Vec3",
                                                   !.location = 1] >>,
        !.uniformBlocks =
            << [blockName |-> "buf", structName |-> "ubuf", size |-> 68, binding |-> 0,
                descriptorSet |-> 0,
                members |->
                    << [DefaultBlockVariable EXCEPT !.name = "mvp", !.type = "Mat4",
                            !.offset = 0, !.size = 64, !.matrixStride = 16],
                       [DefaultBlockVariable EXCEPT !.name = "opacity", !.type = "Float",
                            !.offset = 64, !.size = 4] >>] >>]

\* The few entries descriptions of several entries are built from.
SmallEntries(c) ==
    CASE c \in InOutCollections ->
            {ExampleDesc.inVars[1],
             [DefaultInOutVariable EXCEPT !.name = "img", !.type = "Image2D", !.binding = 0,
                  !.descriptorSet = 0, !.imageFormat = "ImageFormatRgba8", !.imageFlags = 1]}
      [] c = "uniformBlocks" ->
            {ExampleDesc.uniformBlocks[1],
             [DefaultUniformBlock EXCEPT !.blockName = "n",
                  !.members = <<StructMember(0, <<LeafA, StructMember(MaxInt, <<LeafB>>)>>)>>]}
      [] c = "pushConstantBlocks" ->
            {[name |-> "pc", size |-> MaxInt, members |-> <<LeafA>>],
             [name |-> "pc2", size |-> 0, members |-> <<>>]}
      [] c = "storageBlocks" ->
            {[DefaultStorageBlock EXCEPT !.blockName = "StuffSsbo", !.instanceName = "buf",
                  !.knownSize = MaxInt, !.binding = 0, !.descriptorSet = 0,
                  !.members = <<LeafA, StructMember(MaxInt, <<LeafA, LeafB>>)>>],
             [DefaultStorageBlock EXCEPT !.blockName = "e"]}

\* The descriptions of at most n entries drawn from SmallEntries.
RECURSIVE SmallDescs(_)
SmallDescs(n) ==
    IF n = 0 THEN {NewPrivate}
    ELSE LET prev == SmallDescs(n - 1)
         IN prev \cup UNION {{[p EXCEPT ![c] = Append(@, e)] :
                                 p \in prev, e \in SmallEntries(c)} : c \in Collections}

\* UNION over the collections of the descriptions holding one sampled entry.
SingleEntryDescs ==
    UNION {{[NewPrivate EXCEPT ![c] = <<e>>] : e \in EntrySamples(c)} : c \in Collections}

Descriptions == SingleEntryDescs \cup SmallDescs(MaxEntries) \cup {ExampleDesc}

(***************************************************************************)
(* The codec under call: SpecCodec.                                        *)
(***************************************************************************)
\* The ways the bytes are damaged between toBinaryJson and fromBinaryJson.
Damages == {"tag", "version", "payload", "lost"}

damaged(data, how) ==
    CASE how = "tag" -> [data EXCEPT !.tag = "sjbq"]
      [] how = "version" -> [data EXCEPT !.version = BinaryFormatVersion + 1]
      [] how = "payload" -> [data EXCEPT !.valid = FALSE]
      [] how = "lost" -> EmptyByteArray

\* desc.toBinaryJson()
ToBinaryJson ==
    /\ cphase = "built"
    /\ cbytes' = toBinaryJson(cdesc)
    /\ cphase' = "encoded"
    /\ UNCHANGED <<appVars, tok, cdesc, cback, cwarned, objVars, rhiVars>>

\* The bytes are damaged on their way.
DamageBytes(how) ==
    /\ cphase = "encoded"
    /\ cbytes = toBinaryJson(cdesc)
    /\ cbytes' = damaged(cbytes, how)
    /\ UNCHANGED <<appVars, tok, cdesc, cback, cwarned, cphase, objVars, rhiVars>>

\* QShaderDescription::fromBinaryJson(cbytes), on the bytes of toBinaryJson,
\* on damaged bytes, or on the empty QByteArray there is before toBinaryJson.
FromBinaryJson ==
    /\ cphase \in {"built", "encoded"}
    /\ cback' = fromBinaryJson(cbytes)
    /\ cwarned' = loadDocWarns(fromBinaryData(cbytes))
    /\ cphase' = "decoded"
    /\ UNCHANGED <<appVars, tok, cdesc, cbytes, objVars, rhiVars>>

InitCodec ==
    /\ tok = TokIdle
    /\ cdesc \in Descriptions
    /\ cbytes = EmptyByteArray
    /\ cback = NewPrivate
    /\ cwarned = FALSE
    /\ cphase = "built"
    /\ ObjectsAtRest
    /\ RhiAtRest

NextCodec ==
    \/ ToBinaryJson
    \/ \E how \in Damages : DamageBytes(how)
    \/ FromBinaryJson

SpecCodec == InitCodec /\ [][NextCodec]_vars

\* The bytes decoded are the bytes toBinaryJson made of cdesc.
RoundTripped == cphase = "decoded" /\ cbytes = toBinaryJson(cdesc)

\* C1: for every description D with at least one non-empty collection,
\* fromBinaryJson(toBinaryJson(D)) equals D field for field, in the same order,
\* with the absence sentinels preserved.
RoundTrip == (RoundTripped /\ isValid(cdesc)) => cback = cdesc

\* The root key of each collection.
RootKey(c) ==
    CASE c = "inVars" -> inputsKey
      [] c = "outVars" -> outputsKey
      [] c = "uniformBlocks" -> uniformBlocksKey
      [] c = "pushConstantBlocks" -> pushConstantBlocksKey
      [] c = "storageBlocks" -> storageBlocksKey
      [] c = "combinedImageSamplers" -> combinedImageSamplersKey
      [] c = "storageImages" -> storageImagesKey

\* The i-th object of the array arr, the empty object past its end.
ObjectAt(arr, i) == IF i \in 1..Len(arr) THEN toObject(arr[i]) ELSE EmptyObject

\* The object the document under way holds for entry i of collection c, and
\* the object it holds for member j of that block.
EntryObject(c, i) == ObjectAt(toArray(value(cbytes.body, RootKey(c))), i)
MemberObject(c, i, j) == ObjectAt(toArray(value(EntryObject(c, i), membersKey)), j)

\* The document under way is the one toBinaryJson made of cdesc.
Encoded == cphase \in {"encoded", "decoded"} /\ cbytes = toBinaryJson(cdesc)

\* Every field of v at its default has no key in obj.
InOutOmitted(v, obj) ==
    /\ v.location = -1 => ~contains(obj, locationKey)
    /\ v.binding = -1 => ~contains(obj, bindingKey)
    /\ v.descriptorSet = -1 => ~contains(obj, setKey)
    /\ v.imageFormat = "ImageFormatUnknown" => ~contains(obj, imageFormatKey)
    /\ v.imageFlags = 0 => ~contains(obj, imageFlagsKey)

\* Every key absent from obj left its field of w at the default.
InOutDefaulted(obj, w) ==
    /\ ~contains(obj, locationKey) => w.location = -1
    /\ ~contains(obj, bindingKey) => w.binding = -1
    /\ ~contains(obj, setKey) => w.descriptorSet = -1
    /\ ~contains(obj, imageFormatKey) => w.imageFormat = "ImageFormatUnknown"
    /\ ~contains(obj, imageFlagsKey) => w.imageFlags = 0

RECURSIVE MemberOmitted(_, _)
MemberOmitted(v, obj) ==
    /\ v.arrayStride = 0 => ~contains(obj, arrayStrideKey)
    /\ v.matrixStride = 0 => ~contains(obj, matrixStrideKey)
    /\ ~v.matrixIsRowMajor => ~contains(obj, matrixRowMajorKey)
    /\ \A k \in 1..Len(v.structMembers) :
          MemberOmitted(v.structMembers[k],
                        ObjectAt(toArray(value(obj, structMembersKey)), k))

RECURSIVE MemberDefaulted(_, _)
MemberDefaulted(obj, w) ==
    /\ ~contains(obj, arrayStrideKey) => w.arrayStride = 0
    /\ ~contains(obj, matrixStrideKey) => w.matrixStride = 0
    /\ ~contains(obj, matrixRowMajorKey) => w.matrixIsRowMajor = FALSE
    /\ \A k \in 1..Len(w.structMembers) :
          MemberDefaulted(ObjectAt(toArray(value(obj, structMembersKey)), k),
                          w.structMembers[k])

\* C3: encoding an InOutVariable or a BlockVariable writes no key for a field
\* at its default (location, binding, set -1; imageFormat Unknown; imageFlags,
\* arrayStride, matrixStride 0; matrixIsRowMajor false), and decoding a document
\* without the key yields that default.
OmissionOfDefaults ==
    /\ Encoded =>
          /\ \A c \in InOutCollections : \A i \in 1..Len(cdesc[c]) :
                InOutOmitted(cdesc[c][i], EntryObject(c, i))
          /\ \A c \in BlockCollections : \A i \in 1..Len(cdesc[c]) :
                \A j \in 1..Len(cdesc[c][i].members) :
                   MemberOmitted(cdesc[c][i].members[j], MemberObject(c, i, j))
    /\ (cphase = "decoded" /\ ~isNull(fromBinaryData(cbytes))) =>
          /\ \A c \in InOutCollections : \A i \in 1..Len(cback[c]) :
                InOutDefaulted(EntryObject(c, i), cback[c][i])
          /\ \A c \in BlockCollections : \A i \in 1..Len(cback[c]) :
                \A j \in 1..Len(cback[c][i].members) :
                   MemberDefaulted(MemberObject(c, i, j), cback[c][i].members[j])

\* C3's case: a variable with every decoration absent and a member with every
\* optional layout field at its default went through toBinaryJson and
\* fromBinaryJson, without keys in between.
DefaultsOmittedAndRestored ==
    /\ RoundTripped
    /\ \/ /\ Len(cdesc.inVars) = 1
          /\ cdesc.inVars[1].location = -1 /\ cdesc.inVars[1].binding = -1
          /\ DOMAIN EntryObject("inVars", 1) = {nameKey, typeKey}
          /\ cback.inVars[1].location = -1 /\ cback.inVars[1].binding = -1
       \/ /\ Len(cdesc.uniformBlocks) = 1 /\ Len(cdesc.uniformBlocks[1].members) = 1
          /\ cdesc.uniformBlocks[1].members[1].matrixStride = 0
          /\ DOMAIN MemberObject("uniformBlocks", 1, 1) = {nameKey, typeKey, offsetKey, sizeKey}
          /\ cback.uniformBlocks[1].members[1].matrixStride = 0

\* The levels of struct members below v.
RECURSIVE Depth(_)
Depth(v) ==
    IF v.structMembers = <<>> THEN 0
    ELSE LET ds == {Depth(v.structMembers[k]) : k \in 1..Len(v.structMembers)}
         IN 1 + CHOOSE m \in ds : \A e \in ds : e <= m

\* The offset and size of v and of its struct members, level by level, in order.
RECURSIVE Shape(_)
Shape(v) ==
    [offset |-> v.offset, size |-> v.size,
     members |-> [k \in 1..Len(v.structMembers) |-> Shape(v.structMembers[k])]]

\* C5: a BlockVariable whose struct members nest two or more levels deep comes
\* back from toBinaryJson and fromBinaryJson with the same depth, the same number
\* and order of members at every level and the same offset and size at every level.
RecursiveStructRoundTrip ==
    RoundTripped =>
        \A c \in BlockCollections : \A i \in 1..Len(cdesc[c]) :
            \A j \in 1..Len(cdesc[c][i].members) :
                LET v == cdesc[c][i].members[j]
                IN Depth(v) >= 2 =>
                      /\ i <= Len(cback[c])
                      /\ j <= Len(cback[c][i].members)
                      /\ Depth(cback[c][i].members[j]) = Depth(v)
                      /\ Shape(cback[c][i].members[j]) = Shape(v)

\* C5's case: a storage block member two levels deep came back two levels deep.
NestedStructRoundTripped ==
    /\ RoundTripped
    /\ Len(cdesc.storageBlocks) = 1 /\ Len(cdesc.storageBlocks[1].members) = 1
    /\ Depth(cdesc.storageBlocks[1].members[1]) >= 2
    /\ Len(cdesc.storageBlocks[1].members[1].structMembers) = 2
    /\ Depth(cback.storageBlocks[1].members[1]) >= 2

\* C6: fromBinaryJson on bytes that form no valid document returns a description,
\* not an error, with all seven collections empty, isValid() false, after the
\* diagnostic was logged.
MalformedDocumentLeavesEmpty ==
    (cphase = "decoded" /\ isNull(fromBinaryData(cbytes))) =>
        /\ DOMAIN cback = Collections
        /\ \A c \in Collections : cback[c] = <<>>
        /\ ~isValid(cback)
        /\ cwarned

\* C6's case: the bytes of a description with entries lost their tag and were
\* decoded.
DamagedBytesDecoded ==
    /\ cphase = "decoded"
    /\ isValid(cdesc)
    /\ cbytes = damaged(toBinaryJson(cdesc), "tag")
    /\ cwarned
    /\ ~isValid(cback)

\* The members of the example's uniform block in the document under way.
ExampleMember(j) == MemberObject("uniformBlocks", 1, j)

\* C8: the document of the example holds matrixStride 16 for mvp and no
\* matrixStride for opacity, and name, type, offset and size for both.
EndToEndExample ==
    (cdesc = ExampleDesc /\ Encoded) =>
        /\ value(ExampleMember(1), matrixStrideKey) = JDouble(16)
        /\ ~contains(ExampleMember(2), matrixStrideKey)
        /\ value(ExampleMember(1), nameKey) = JString("mvp")
        /\ value(ExampleMember(1), typeKey) = JString("mat4")
        /\ value(ExampleMember(1), offsetKey) = JDouble(0)
        /\ value(ExampleMember(1), sizeKey) = JDouble(64)
        /\ value(ExampleMember(2), nameKey) = JString("opacity")
        /\ value(ExampleMember(2), typeKey) = JString("float")
        /\ value(ExampleMember(2), offsetKey) = JDouble(64)
        /\ value(ExampleMember(2), sizeKey) = JDouble(4)

\* C8's case: the example was encoded, its input and its block in the document.
ExampleEncoded ==
    /\ cdesc = ExampleDesc
    /\ cphase = "encoded"
    /\ cbytes = toBinaryJson(ExampleDesc)
    /\ value(EntryObject("inVars", 1), locationKey) = JDouble(1)
    /\ Len(toArray(value(EntryObject("uniformBlocks", 1), membersKey))) = 2

\* C4: isValid() is false for a freshly constructed description and for one
\* decoded from a null or empty document, and for the description built and
\* the one decoded it is true exactly when one of the seven collections holds
\* an entry.
ValidityPredicate ==
    /\ cdesc = NewPrivate => ~isValid(cdesc)
    /\ (cphase = "decoded" /\ DocKind(cbytes) \in {"null", "empty"}) => ~isValid(cback)
    /\ isValid(cdesc) <=> \E c \in Collections : Len(cdesc[c]) >= 1
    /\ cphase = "decoded" => (isValid(cback) <=> \E c \in Collections : Len(cback[c]) >= 1)

\* C4's case: the description decoded holds one storage image and nothing
\* else, and is valid.
ValidAfterFirstEntry ==
    /\ cphase = "decoded"
    /\ Len(cback.storageImages) = 1
    /\ \A c \in Collections \ {"storageImages"} : cback[c] = <<>>
    /\ isValid(cback)

(***************************************************************************)
(* The implicitly shared payload: reference counting and detaching.        *)
(***************************************************************************)
\* Whether object o is alive, and the payload its d points to.
Exists(o) == d[o] # 0

\* new QShaderDescriptionPrivate finds memory.
HasFree(h) == \E p \in PayloadIds : h[p].state = "free"
alloc(h) == CHOOSE p \in PayloadIds :
               h[p].state = "free" /\ \A q \in PayloadIds : h[q].state = "free" => p <= q

\* The payload at p constructed with a reference count of 2.
newPrivateCountedTwice(h, p, data) ==
    [h EXCEPT ![p] = [state |-> "live", ref |-> 2, data |-> data]]

\* The payload at p after construction with the given contents: ref is 1.
newPrivate(h, p, data) == [h EXCEPT ![p] = [state |-> "live", ref |-> 1, data |-> data]]

\* d->ref.ref()
refUp(h, p) == [h EXCEPT ![p].ref = @ + 1]

\* d->ref.deref() with the delete taken away.
derefNoDelete(h, p) == [h EXCEPT ![p].ref = @ - 1]

\* if (!d->ref.deref()) delete d;
derefAndDelete(h, p) ==
    LET h1 == [h EXCEPT ![p].ref = @ - 1]
    IN IF h1[p].ref = 0 THEN [h1 EXCEPT ![p] = FreePayload] ELSE h1

\* qAtomicDetach(d): d kept when its ref is 1, else a copy of *d with ref 1
\* takes its place and the old payload loses one reference.
qAtomicDetach(h, dp) ==
    IF h[dp].ref = 1 THEN [heap |-> h, d |-> dp]
    ELSE LET x == dp
             n == alloc(h)
             h1 == newPrivate(h, n, h[x].data)
         IN [heap |-> derefAndDelete(h1, x), d |-> n]

\* qAtomicAssign(d, x)
qAtomicAssign(h, dp, x) ==
    IF dp = x THEN [heap |-> h, d |-> dp]
    ELSE [heap |-> derefAndDelete(refUp(h, x), dp), d |-> x]

\* QShaderDescription::QShaderDescription(const QShaderDescription &other)
\* without d->ref.ref().
copyConstructNoRef(h, otherD) == [heap |-> h, d |-> otherD]

\* QShaderDescription::QShaderDescription(const QShaderDescription &other)
copyConstruct(h, otherD) == [heap |-> refUp(h, otherD), d |-> otherD]

\* QShaderDescription::detach
detach(h, dp) == qAtomicDetach(h, dp)

\* What the accessors of object o return: copies of its payload's collections.
Read(o) == heap[d[o]].data

\* The entry a mutation appends to collection c.
MutationEntry(c) ==
    CASE c \in InOutCollections ->
            [DefaultInOutVariable EXCEPT !.name = "color", !.type = "Vec3", !.location = 1]
      [] c = "uniformBlocks" ->
            [DefaultUniformBlock EXCEPT !.blockName = "buf", !.structName = "ubuf", !.binding = 0]
      [] c = "pushConstantBlocks" -> [DefaultPushConstantBlock EXCEPT !.name = "pc"]
      [] c = "storageBlocks" ->
            [DefaultStorageBlock EXCEPT !.blockName = "StuffSsbo", !.instanceName = "buf"]

\* The number of entries of a payload's collections.
RECURSIVE Entries(_, _)
Entries(p, cs) ==
    IF cs = {} THEN 0
    ELSE LET c == CHOOSE x \in cs : TRUE
         IN Len(p[c]) + Entries(p, cs \ {c})

\* The collections the mutations append to: stage variables, blocks, images.
MutatedCollections == {"inVars", "uniformBlocks", "storageImages"}

\* The byte arrays handed to fromBinaryJson: none, the empty description's,
\* that of a description with one entry, and the same damaged.
ByteSamples ==
    LET data == toBinaryJson([NewPrivate EXCEPT !.inVars = <<MutationEntry("inVars")>>])
    IN {EmptyByteArray, toBinaryJson(NewPrivate), data, damaged(data, "tag")}

\* QShaderDescription()
Construct(o) ==
    /\ ~Exists(o)
    /\ HasFree(heap)
    /\ LET p == alloc(heap)
       IN /\ heap' = newPrivate(heap, p, NewPrivate)
          /\ d' = [d EXCEPT ![o] = p]
    /\ last' = [op |-> "construct", obj |-> o, doc |-> "none", shared |-> FALSE]
    /\ UNCHANGED <<appVars, tokVars, codecVars, rhiVars, thr>>

\* QShaderDescription o(other)
CopyConstruct(o, other) ==
    /\ ~Exists(o)
    /\ Exists(other)
    /\ LET r == copyConstruct(heap, d[other])
       IN /\ heap' = r.heap
          /\ d' = [d EXCEPT ![o] = r.d]
    /\ last' = [op |-> "copy", obj |-> o, doc |-> "none", shared |-> FALSE]
    /\ UNCHANGED <<appVars, tokVars, codecVars, rhiVars, thr>>

\* o = other
OperatorAssign(o, other) ==
    /\ Exists(o)
    /\ Exists(other)
    /\ LET r == qAtomicAssign(heap, d[o], d[other])
       IN /\ heap' = r.heap
          /\ d' = [d EXCEPT ![o] = r.d]
    /\ last' = [op |-> "assign", obj |-> o, doc |-> "none", shared |-> FALSE]
    /\ UNCHANGED <<appVars, tokVars, codecVars, rhiVars, thr>>

\* ~QShaderDescription()
Destruct(o) ==
    /\ Exists(o)
    /\ heap' = derefAndDelete(heap, d[o])
    /\ d' = [d EXCEPT ![o] = 0]
    /\ last' = [op |-> "destruct", obj |-> o, doc |-> "none", shared |-> FALSE]
    /\ UNCHANGED <<appVars, tokVars, codecVars, rhiVars, thr>>

\* o.detach(), then an entry appended to collection c through the private.
Mutate(o, c) ==
    /\ Exists(o)
    /\ heap[d[o]].ref = 1 \/ HasFree(heap)
    /\ Entries(Read(o), Collections) < MaxMutations
    /\ LET r == detach(heap, d[o])
       IN /\ heap' = [r.heap EXCEPT ![r.d].data[c] = Append(@, MutationEntry(c))]
          /\ d' = [d EXCEPT ![o] = r.d]
    /\ last' = [op |-> "mutate", obj |-> o, doc |-> "none", shared |-> heap[d[o]].ref > 1]
    /\ UNCHANGED <<appVars, tokVars, codecVars, rhiVars, thr>>

\* QShaderDescription o = QShaderDescription::fromBinaryJson(data): desc is
\* constructed, loadDoc runs on its payload, and last.ref is the reference
\* count loadDoc finds there.
Decode(o, data) ==
    /\ ~Exists(o)
    /\ HasFree(heap)
    /\ LET p == alloc(heap)
           desc == newPrivate(heap, p, NewPrivate)
       IN /\ heap' = [desc EXCEPT ![p].data = loadDoc(@, fromBinaryData(data))]
          /\ d' = [d EXCEPT ![o] = p]
          /\ last' = [op |-> "fromBinaryJson", obj |-> o, doc |-> DocKind(data),
                      shared |-> FALSE, ref |-> desc[p].ref]
    /\ UNCHANGED <<appVars, tokVars, codecVars, rhiVars, thr>>

Init == tok = TokIdle /\ CodecAtRest /\ ObjectsAtRest /\ RhiAtRest

Next ==
    \/ \E o \in Objs : Construct(o)
    \/ \E o \in Objs, other \in Objs : CopyConstruct(o, other)
    \/ \E o \in Objs, other \in Objs : OperatorAssign(o, other)
    \/ \E o \in Objs : Destruct(o)
    \/ \E o \in Objs, c \in MutatedCollections : Mutate(o, c)
    \/ \E o \in Objs, data \in ByteSamples : Decode(o, data)

Spec == Init /\ [][Next]_vars

\* C9: a detach-then-mutate step on one object leaves every collection read
\* through every other object unchanged, and writes to a payload whose
\* reference count is 1.
CopyOnWriteIsolation ==
    [][\A o \in Objs :
          (last'.op = "mutate" /\ last'.obj = o) =>
              /\ heap'[d'[o]].ref = 1
              /\ Read(o)' # Read(o)
              /\ \A x \in Objs \ {o} :
                    Exists(x) => /\ Exists(x)'
                                 /\ heap'[d'[x]].state = "live"
                                 /\ Read(x)' = Read(x)]_vars

\* C9's case: the object mutated last had shared its payload with a copy,
\* which still reads the contents from before.
MutatedWhileShared ==
    /\ last.op = "mutate"
    /\ last.shared
    /\ \E x \in Objs \ {last.obj} :
          /\ Exists(x)
          /\ d[x] # d[last.obj]
          /\ Entries(Read(last.obj), Collections) = Entries(Read(x), Collections) + 1
          /\ heap[d[x]].ref = 1 /\ heap[d[last.obj]].ref = 1

(***************************************************************************)
(* The Null backend: resources, their builds and releases.  SpecRhi.       *)
(***************************************************************************)
\* QNullSwapChain::surfacePixelSize
surfacePixelSize == QSize(1280, 720)

\* qCeil(log2(n)) for n >= 1.
RECURSIVE qCeilLog2(_)
qCeilLog2(n) == IF n <= 1 THEN 0 ELSE 1 + qCeilLog2((n + 1) \div 2)

qMax(a, b) == IF a >= b THEN a ELSE b

\* The pixel sizes of textures and render buffers: none given, empty, square
\* and not, a power of two and not.
Sizes == {InvalidSize, QSize(0, 0), QSize(1, 1), QSize(5, 3), QSize(64, 16)}

\* The pixel sizes of the resources attached to a render target.
AttachedSizes == {QSize(5, 3), QSize(64, 16)}
Pointers == {NullPtr} \cup {PtrTo(s) : s \in AttachedSizes}

\* QRhiColorAttachment: a texture, a render buffer, or neither.
ColorAttachments == [texture : Pointers, renderBuffer : Pointers]

\* The sequences of at most n color attachments.
RECURSIVE AttachmentLists(_)
AttachmentLists(n) ==
    IF n = 0 THEN {<<>>}
    ELSE LET prev == AttachmentLists(n - 1)
         IN prev \cup {Append(l, a) : l \in prev, a \in ColorAttachments}

\* QRhiTextureRenderTargetDescription
TargetDescriptions ==
    {[NoParams EXCEPT !.colorAttachments = l, !.depthStencilBuffer = ds, !.depthTexture = dt] :
        l \in AttachmentLists(MaxAttachments), ds \in Pointers, dt \in Pointers}

ResourceKinds ==
    {"buffer", "renderBuffer", "texture", "sampler", "textureRenderTarget",
     "shaderResourceBindings", "graphicsPipeline", "computePipeline"}

\* The parameters the factory functions take, by kind.
ParamsOf(kind) ==
    CASE kind = "buffer" -> {[NoParams EXCEPT !.size = n] : n \in {0, 256}}
      [] kind = "renderBuffer" -> {[NoParams EXCEPT !.pixelSize = s] : s \in Sizes}
      [] kind = "texture" ->
            {[NoParams EXCEPT !.pixelSize = s, !.cube = c, !.mip = m] :
                s \in Sizes, c \in BOOLEAN, m \in BOOLEAN}
      [] kind = "textureRenderTarget" -> TargetDescriptions
      [] OTHER -> {NoParams}

\* The process runs until a call brings it down.
Running == ret.result # "crash"

\* QRhiNull::createBuffer, createRenderBuffer, createTexture, createSampler,
\* createTextureRenderTarget, createGraphicsPipeline, createComputePipeline,
\* createShaderResourceBindings
Create(kind, params) ==
    /\ Running
    /\ res = NoResource
    /\ res' = [kind |-> kind, params |-> params, builds |-> 0, pixelSize |-> InvalidSize]
    /\ ret' = [op |-> "create", result |-> "resource"]
    /\ tally' = [tally EXCEPT !.news = 0, !.releases = 0]
    /\ UNCHANGED <<appVars, tokVars, codecVars, objVars, deviceVars, sc, sink>>

\* A build of the resource of the given kind that reports ev and returns true.
Built(kind, op, ev) ==
    /\ Running
    /\ res.kind = kind
    /\ res.builds < MaxBuilds
    /\ res' = [res EXCEPT !.builds = @ + 1]
    /\ sink' = IF ev = NoEvent THEN sink ELSE ev
    /\ tally' = IF ev = NoEvent THEN tally ELSE [tally EXCEPT !.news = @ + 1]
    /\ ret' = [op |-> op, result |-> "true"]
    /\ UNCHANGED <<appVars, tokVars, codecVars, objVars, deviceVars, sc>>

QNullBuffer_build ==
    Built("buffer", "build", [ev |-> "newBuffer", args |-> <<res.params.size, 1, 0>>])

QNullRenderBuffer_build ==
    Built("renderBuffer", "build", [ev |-> "newRenderBuffer", args |-> <<FALSE, FALSE, 1>>])

\* The mip level count QNullTexture::build and buildFrom compute.
mipLevelCount(params) ==
    LET size == IF QSize_isEmpty(params.pixelSize) THEN QSize(1, 1) ELSE params.pixelSize
    IN IF params.mip THEN qCeilLog2(qMax(size.w, size.h)) + 1 ELSE 1

QNullTexture_build ==
    Built("texture", "build",
          [ev |-> "newTexture",
           args |-> <<TRUE, mipLevelCount(res.params), IF res.params.cube THEN 6 ELSE 1, 1>>])

QNullTexture_buildFrom ==
    Built("texture", "buildFrom",
          [ev |-> "newTexture",
           args |-> <<FALSE, mipLevelCount(res.params), IF res.params.cube THEN 6 ELSE 1, 1>>])

QNullSampler_build == Built("sampler", "build", NoEvent)

QNullShaderResourceBindings_build == Built("shaderResourceBindings", "build", NoEvent)

QNullGraphicsPipeline_build == Built("graphicsPipeline", "build", NoEvent)

QNullComputePipeline_build == Built("computePipeline", "build", NoEvent)

\* What a pixel size read through a null pointer can turn out to be.
GarbageSizes == Sizes

\* The ways QNullTextureRenderTarget::build ends for a description, old being
\* d.pixelSize before: what it returns and d.pixelSize after.  With a first
\* color attachment that has neither texture nor render buffer it calls
\* pixelSize() through a null pointer, which is undefined: the process goes
\* down, or the call goes on with whatever it read.
textureRenderTargetOutcomes(desc, old) ==
    IF desc.colorAttachments # <<>> THEN
        LET tex == Head(desc.colorAttachments).texture
            rb == Head(desc.colorAttachments).renderBuffer
        IN IF ~tex.null THEN {[result |-> "true", pixelSize |-> tex.pixelSize]}
           ELSE IF ~rb.null THEN {[result |-> "true", pixelSize |-> rb.pixelSize]}
           ELSE {[result |-> "crash", pixelSize |-> old]}
                \cup {[result |-> "true", pixelSize |-> g] : g \in GarbageSizes}
    ELSE IF ~desc.depthStencilBuffer.null
        THEN {[result |-> "true", pixelSize |-> desc.depthStencilBuffer.pixelSize]}
    ELSE IF ~desc.depthTexture.null
        THEN {[result |-> "true", pixelSize |-> desc.depthTexture.pixelSize]}
    ELSE {[result |-> "true", pixelSize |-> old]}

QNullTextureRenderTarget_build ==
    /\ Running
    /\ res.kind = "textureRenderTarget"
    /\ res.builds < MaxBuilds
    /\ \E out \in textureRenderTargetOutcomes(res.params, res.pixelSize) :
          /\ res' = [res EXCEPT !.builds = @ + 1, !.pixelSize = out.pixelSize]
          /\ ret' = [op |-> "build", result |-> out.result]
    /\ UNCHANGED <<appVars, tokVars, codecVars, objVars, deviceVars, sc, sink, tally>>

\* What release() of a resource of the given kind reports.
releaseEvent(kind) ==
    CASE kind = "buffer" -> [ev |-> "releaseBuffer", args |-> <<>>]
      [] kind = "renderBuffer" -> [ev |-> "releaseRenderBuffer", args |-> <<>>]
      [] kind = "texture" -> [ev |-> "releaseTexture", args |-> <<>>]
      [] OTHER -> NoEvent

\* release() of the resource.
Release ==
    /\ Running
    /\ res # NoResource
    /\ releaseEvent(res.kind) = NoEvent \/ tally.releases < MaxReleases
    /\ sink' = IF releaseEvent(res.kind) = NoEvent THEN sink ELSE releaseEvent(res.kind)
    /\ tally' = IF releaseEvent(res.kind) = NoEvent THEN tally
                ELSE [tally EXCEPT !.releases = @ + 1]
    /\ ret' = [op |-> "release", result |-> "void"]
    /\ UNCHANGED <<appVars, tokVars, codecVars, objVars, deviceVars, res, sc>>

\* delete of the resource: the destructor calls release().
Destroy ==
    /\ Running
    /\ res # NoResource
    /\ releaseEvent(res.kind) = NoEvent \/ tally.releases < MaxReleases
    /\ sink' = IF releaseEvent(res.kind) = NoEvent THEN sink ELSE releaseEvent(res.kind)
    /\ tally' = IF releaseEvent(res.kind) = NoEvent THEN tally
                ELSE [tally EXCEPT !.releases = @ + 1]
    /\ res' = NoResource
    /\ ret' = [op |-> "delete", result |-> "void"]
    /\ UNCHANGED <<appVars, tokVars, codecVars, objVars, deviceVars, sc>>

\* QRhiNull::createSwapChain
createSwapChain ==
    /\ Running
    /\ ~sc.made
    /\ sc' = [NoSwapChain EXCEPT !.made = TRUE]
    /\ ret' = [op |-> "createSwapChain", result |-> "resource"]
    /\ UNCHANGED <<appVars, tokVars, codecVars, objVars, deviceVars, res, sink, tally>>

\* The swapchain after QNullSwapChain::buildOrResize, but for the reference
\* render target, whose size stays.
buildOrResizeTargetStale(s) ==
    [s EXCEPT !.currentPixelSize = surfacePixelSize, !.frameCount = 0, !.builds = @ + 1]

\* The swapchain after QNullSwapChain::buildOrResize.
buildOrResize(s) ==
    [s EXCEPT !.currentPixelSize = surfacePixelSize,
              !.rtPixelSize = surfacePixelSize,
              !.frameCount = 0,
              !.builds = @ + 1]

QNullSwapChain_buildOrResize ==
    /\ Running
    /\ sc.made
    /\ sc.builds < MaxBuilds
    /\ sc' = buildOrResize(sc)
    /\ sink' = [ev |-> "resizeSwapChain", args |-> <<1, 0, 1>>]
    /\ frame' = [frame EXCEPT !.ended = 0]
    /\ ret' = [op |-> "buildOrResize", result |-> "true"]
    /\ UNCHANGED <<appVars, tokVars, codecVars, objVars, res, tally, upd, cap>>

QNullSwapChain_release ==
    /\ Running
    /\ sc.made
    /\ sink' = [ev |-> "releaseSwapChain", args |-> <<>>]
    /\ ret' = [op |-> "release", result |-> "void"]
    /\ UNCHANGED <<appVars, tokVars, codecVars, objVars, deviceVars, res, sc, tally>>

InitRhi == tok = TokIdle /\ CodecAtRest /\ ObjectsAtRest /\ RhiAtRest

NextRhi ==
    \/ \E kind \in ResourceKinds : \E params \in ParamsOf(kind) : Create(kind, params)
    \/ QNullBuffer_build
    \/ QNullRenderBuffer_build
    \/ QNullTexture_build
    \/ QNullTexture_buildFrom
    \/ QNullSampler_build
    \/ QNullTextureRenderTarget_build
    \/ QNullShaderResourceBindings_build
    \/ QNullGraphicsPipeline_build
    \/ QNullComputePipeline_build
    \/ Release
    \/ Destroy
    \/ createSwapChain
    \/ QNullSwapChain_buildOrResize
    \/ QNullSwapChain_release

SpecRhi == InitRhi /\ [][NextRhi]_vars

BuildOps == {"build", "buildFrom", "buildOrResize"}

\* C10: every build, of every resource kind with every construction
\* parameter and however often repeated, returns true.
BuildsNeverFail == ret.op \in BuildOps => ret.result = "true"

\* The resource kinds whose build and release report to the profiling sink.
ReportingKinds == {"buffer", "renderBuffer", "texture"}

\* C11: a release() after the first one, by a second call or by the
\* destructor, reports nothing more to the profiling sink: the sink gets at
\* most one release event about a resource.
ReleaseIdempotent == tally.releases <= 1

\* The attachments of a description in the order color texture, color render
\* buffer, depth-stencil buffer, depth texture.
attachmentsInOrder(desc) ==
    (IF desc.colorAttachments = <<>> THEN <<>>
     ELSE <<Head(desc.colorAttachments).texture, Head(desc.colorAttachments).renderBuffer>>)
    \o <<desc.depthStencilBuffer, desc.depthTexture>>

\* The first of them that is there, NullPtr when none is.
firstAvailable(desc) ==
    LET as == attachmentsInOrder(desc)
        there == {i \in 1..Len(as) : ~as[i].null}
    IN IF there = {} THEN NullPtr
       ELSE as[CHOOSE i \in there : \A j \in there : i <= j]

\* C17: after build() the pixel size of a texture render target is that of
\* the first attachment there is, in the order color texture, color render
\* buffer, depth-stencil buffer, depth texture.
TextureRenderTargetSize ==
    (res.kind = "textureRenderTarget" /\ ret.op = "build"
        /\ ~firstAvailable(res.params).null)
        => /\ ret.result = "true"
           /\ res.pixelSize = firstAvailable(res.params).pixelSize

\* C20: the sink gets one creation event per build() of a resource, one
\* release event per destroyed resource and none without a creation event
\* before it, and the frame number endFrame reports is the frame counter
\* after it.
ProfilingAccounting ==
    /\ res.kind \in ReportingKinds => tally.news = res.builds
    /\ tally.releases > 0 => tally.news > 0
    /\ (ret.op = "delete" /\ tally.news > 0) => tally.releases = 1
    /\ ret.op = "endFrame" => tally.frameNo = sc.frameCount

(***************************************************************************)
(* The Null backend: frames and capability queries.  SpecFrames.           *)
(***************************************************************************)
\* The swapchain after the mutation of QRhiNull::endFrame, counting twice.
endFrameTwice(s) == [s EXCEPT !.frameCount = @ + 2]

\* The swapchain after QRhiNull::endFrame.
endFrame(s) == [s EXCEPT !.frameCount = @ + 1]

\* The swapchains frames are begun and ended on: sc, whose state the model
\* keeps in full, and another one, of which it keeps the frame counter.
SwapChains == {"sc", "other"}

\* currentSwapChain after QRhiNull::endFrame that clears it only when the
\* frame ended is the current swapchain's.
currentAfterEndFrameOfCurrent(current, swapChain) ==
    IF current = swapChain THEN "nullptr" ELSE current

\* currentSwapChain after QRhiNull::endFrame(swapChain, flags).
currentAfterEndFrame(current, swapChain) == "nullptr"

\* QRhiNull::beginFrame(swapChain, flags)
QRhiNull_beginFrame(swapChain) ==
    /\ Running
    /\ sc.made
    /\ frame' = [frame EXCEPT !.currentSwapChain = swapChain, !.begunOn = swapChain]
    /\ sink' = [ev |-> "beginSwapChainFrame", args |-> <<>>]
    /\ ret' = [op |-> "beginFrame", result |-> "FrameOpSuccess"]
    /\ UNCHANGED <<appVars, tokVars, codecVars, objVars, res, sc, tally, upd, cap>>

\* QRhiNull::endFrame(swapChain, flags): endSwapChainFrame and then
\* swapChainFrameGpuTime are reported.
QRhiNull_endFrame(swapChain) ==
    /\ Running
    /\ sc.made
    /\ IF swapChain = "sc"
       THEN /\ sc.frameCount < MaxFrames
            /\ tally' = [tally EXCEPT !.frameNo = sc.frameCount + 1]
            /\ sc' = endFrame(sc)
            /\ frame' = [frame EXCEPT
                            !.currentSwapChain = currentAfterEndFrame(@, swapChain),
                            !.begunOn = "nullptr", !.ended = @ + 1]
       ELSE /\ frame.otherFrames < MaxFrames
            /\ tally' = [tally EXCEPT !.frameNo = frame.otherFrames + 1]
            /\ sc' = sc
            /\ frame' = [frame EXCEPT
                            !.currentSwapChain = currentAfterEndFrame(@, swapChain),
                            !.begunOn = "nullptr", !.otherFrames = @ + 1]
    /\ sink' = [ev |-> "swapChainFrameGpuTime", args |-> <<>>]
    /\ ret' = [op |-> "endFrame", result |-> "FrameOpSuccess", swapChain |-> swapChain,
               begunOn |-> frame.begunOn]
    /\ UNCHANGED <<appVars, tokVars, codecVars, objVars, res, upd, cap>>

\* QRhiNull::beginOffscreenFrame(cb)
QRhiNull_beginOffscreenFrame ==
    /\ Running
    /\ frame' = [frame EXCEPT !.offscreen = TRUE]
    /\ ret' = [op |-> "beginOffscreenFrame", result |-> "FrameOpSuccess"]
    /\ UNCHANGED <<appVars, tokVars, codecVars, objVars, res, sc, sink, tally, upd, cap>>

\* QRhiNull::endOffscreenFrame()
QRhiNull_endOffscreenFrame ==
    /\ Running
    /\ frame.offscreen
    /\ frame' = [frame EXCEPT !.offscreen = FALSE]
    /\ ret' = [op |-> "endOffscreenFrame", result |-> "FrameOpSuccess"]
    /\ UNCHANGED <<appVars, tokVars, codecVars, objVars, res, sc, sink, tally, upd, cap>>

\* QRhiNull::finish()
QRhiNull_finish ==
    /\ Running
    /\ ret.op # "finish"
    /\ ret' = [op |-> "finish", result |-> "FrameOpSuccess"]
    /\ UNCHANGED <<appVars, tokVars, codecVars, objVars, res, sc, sink, tally, deviceVars>>

\* QRhi::Feature, QRhiTexture::Format and QRhiTexture::Flags as sampled, and
\* QRhi::ResourceLimit.
Features == {"MultisampleTexture", "Compute", "Timestamps"}
Formats == {"RGBA8", "BGRA8", "R8", "R16", "RED_OR_ALPHA8", "RGBA16F", "RGBA32F", "D16", "D32F"}
TextureFlags == {{}, {"MipMapped"}, {"CubeMap", "RenderTarget"}}
ResourceLimits == {"TextureSizeMin", "TextureSizeMax", "MaxColorAttachments", "FramesInFlight"}

isFeatureSupported(feature) == TRUE

isTextureFormatSupported(format, flags) == TRUE

\* QRhiNull::resourceLimit with the answers for the two texture sizes swapped.
resourceLimitSwapped(limit) ==
    CASE limit = "TextureSizeMin" -> 16384
      [] limit = "TextureSizeMax" -> 1
      [] limit = "MaxColorAttachments" -> 8
      [] limit = "FramesInFlight" -> 2

resourceLimit(limit) ==
    CASE limit = "TextureSizeMin" -> 1
      [] limit = "TextureSizeMax" -> 16384
      [] limit = "MaxColorAttachments" -> 8
      [] limit = "FramesInFlight" -> 2

QRhiNull_isFeatureSupported(feature) ==
    /\ Running
    /\ cap' = [query |-> "isFeatureSupported", arg |-> feature,
               yes |-> isFeatureSupported(feature), limit |-> 0]
    /\ UNCHANGED <<appVars, tokVars, codecVars, objVars, res, sc, sink, ret, tally, frame, upd>>

QRhiNull_isTextureFormatSupported(format, flags) ==
    /\ Running
    /\ cap' = [query |-> "isTextureFormatSupported", arg |-> format,
               yes |-> isTextureFormatSupported(format, flags), limit |-> 0]
    /\ UNCHANGED <<appVars, tokVars, codecVars, objVars, res, sc, sink, ret, tally, frame, upd>>

QRhiNull_resourceLimit(limit) ==
    /\ Running
    /\ cap' = [query |-> "resourceLimit", arg |-> limit, yes |-> FALSE,
               limit |-> resourceLimit(limit)]
    /\ UNCHANGED <<appVars, tokVars, codecVars, objVars, res, sc, sink, ret, tally, frame, upd>>

InitFrames == tok = TokIdle /\ CodecAtRest /\ ObjectsAtRest /\ RhiAtRest

NextFrames ==
    \/ createSwapChain
    \/ QNullSwapChain_buildOrResize
    \/ \E swapChain \in SwapChains : QRhiNull_beginFrame(swapChain)
    \/ \E swapChain \in SwapChains : QRhiNull_endFrame(swapChain)
    \/ QRhiNull_beginOffscreenFrame
    \/ QRhiNull_endOffscreenFrame
    \/ QRhiNull_finish
    \/ \E feature \in Features : QRhiNull_isFeatureSupported(feature)
    \/ \E format \in Formats, flags \in TextureFlags :
          QRhiNull_isTextureFormatSupported(format, flags)
    \/ \E limit \in ResourceLimits : QRhiNull_resourceLimit(limit)

SpecFrames == InitFrames /\ [][NextFrames]_vars

\* C12: once the swapchain is built its frame counter is the number of
\* endFrame calls completed since the last buildOrResize, beginFrame leaves
\* it alone, and beginFrame and endFrame return FrameOpSuccess.
FrameCounter ==
    /\ sc.builds >= 1 => sc.frameCount = frame.ended
    /\ ret.op \in {"beginFrame", "endFrame"} => ret.result = "FrameOpSuccess"
    /\ (ret.op = "endFrame" /\ ret.swapChain = "sc" /\ sc.builds >= 1) => sc.frameCount >= 1

\* C12's case: a second endFrame completed after a buildOrResize.
SecondFrameEnded ==
    /\ ret.op = "endFrame"
    /\ ret.swapChain = "sc"
    /\ sc.builds >= 1
    /\ frame.ended = 2
    /\ sc.frameCount = 2
    /\ ~HasCurrentSwapChain

\* C13: no swapchain frame and offscreen frame are active together on the
\* device, and beginOffscreenFrame does not report success while a swapchain
\* frame is active.
OneRecordingContext ==
    /\ ~(HasCurrentSwapChain /\ frame.offscreen)
    /\ (ret.op = "beginOffscreenFrame" /\ HasCurrentSwapChain)
          => ret.result # "FrameOpSuccess"

\* C18: buildOrResize returns true and leaves the current pixel size and the
\* reference render target's size at surfacePixelSize() and the frame counter
\* at 0; from then on the target's size is the swapchain's current size.
BuildOrResizeSizes ==
    /\ ret.op = "buildOrResize" =>
          /\ ret.result = "true"
          /\ sc.currentPixelSize = surfacePixelSize
          /\ sc.rtPixelSize = surfacePixelSize
          /\ sc.frameCount = 0
    /\ sc.builds >= 1 => sc.rtPixelSize = sc.currentPixelSize

\* C18's case: buildOrResize ran again after frames had ended.
ResizedAfterFrames ==
    /\ ret.op = "buildOrResize"
    /\ sc.builds = 2
    /\ tally.frameNo >= 1
    /\ sc.frameCount = 0
    /\ sc.rtPixelSize = QSize(1280, 720)

\* C19: every feature and every texture format with every flag combination
\* is answered as supported, and the limits are 1, 16384, 8 and 2, in every
\* state of the device.
CapabilityAnswers ==
    /\ cap.query \in {"isFeatureSupported", "isTextureFormatSupported"} => cap.yes
    /\ cap.query = "resourceLimit" =>
          /\ cap.arg = "TextureSizeMin" => cap.limit = 1
          /\ cap.arg = "TextureSizeMax" => cap.limit = 16384
          /\ cap.arg = "MaxColorAttachments" => cap.limit = 8
          /\ cap.arg = "FramesInFlight" => cap.limit = 2

\* C19's case: the largest texture size was asked for while a frame was
\* active on a swapchain that had counted a frame.
LimitAskedDuringFrame ==
    /\ cap.query = "resourceLimit"
    /\ cap.arg = "TextureSizeMax"
    /\ cap.limit = 16384
    /\ HasCurrentSwapChain
    /\ sc.frameCount >= 1

(***************************************************************************)
(* The Null backend: resource update batches and readbacks.  SpecReadback. *)
(***************************************************************************)
\* A texture by what a readback reads of it, and no texture.
TexturePtr(format, pixelSize) == [null |-> FALSE, format |-> format, pixelSize |-> pixelSize]
NullTexture == [null |-> TRUE, format |-> "UnknownFormat", pixelSize |-> InvalidSize]

\* QByteArray by its length and the byte values in it, and QByteArray::fill.
ByteArray(len, values) == [len |-> len, values |-> values]
fill(data, ch, size) == ByteArray(size, IF size > 0 THEN {ch} ELSE {})

\* QRhi::sizeForMipLevel
sizeForMipLevel(level, size) ==
    QSize(qMax(1, size.w \div (2 ^ level)), qMax(1, size.h \div (2 ^ level)))

\* The bytes of a texel of an uncompressed format.
bytesPerTexel(format) ==
    CASE format \in {"R8", "RED_OR_ALPHA8"} -> 1
      [] format \in {"R16", "D16"} -> 2
      [] format \in {"RGBA8", "BGRA8", "D32F"} -> 4
      [] format = "RGBA16F" -> 8
      [] format = "RGBA32F" -> 16

\* textureFormatInfo(format, size, nullptr, &byteSize): byteSize, which stays
\* within a quint32 for the sizes here.
textureFormatInfo(format, size) == size.w * size.h * bytesPerTexel(format)

\* QRhiReadbackResult, as constructed and as a callback has not seen it.
ReadbackResult(format, pixelSize, data) ==
    [format |-> format, pixelSize |-> pixelSize, data |-> data]
FreshResult == ReadbackResult("UnknownFormat", InvalidSize, ByteArray(0, {}))
UsedResult == ReadbackResult("BGRA8", QSize(1, 1), ByteArray(3, {7}))

\* What became of the result of one operation: the result, how often its
\* completed callback ran, what the callback saw, and whether the process
\* went down in the operation.
Outcome(result, calls, seen, crashed) ==
    [result |-> result, calls |-> calls, seen |-> seen, crashed |-> crashed]

\* result->format of a readback with BGRA8 for the swapchain.
readFormatBGRA8(u) == IF ~u.tex.null THEN u.tex.format ELSE "BGRA8"

\* result->format of a readback
readFormat(u) == IF ~u.tex.null THEN u.tex.format ELSE "RGBA8"

\* result->pixelSize of a readback that takes the size of level 0.
readPixelSizeLevel0(u, curSize) == IF ~u.tex.null THEN u.tex.pixelSize ELSE curSize

\* result->pixelSize of a readback, curSize being
\* currentSwapChain->currentPixelSize().
readPixelSize(u, curSize) ==
    IF ~u.tex.null THEN sizeForMipLevel(u.level, u.tex.pixelSize) ELSE curSize

\* One Read operation of the loop of QRhiNull::resourceUpdate with the
\* callback run before the result is filled in.
applyReadCallbackFirst(u, curSize) ==
    LET r3 == ReadbackResult(readFormat(u), readPixelSize(u, curSize),
                             fill(u.result.data, 0,
                                  textureFormatInfo(readFormat(u), readPixelSize(u, curSize))))
    IN IF u.completed THEN Outcome(r3, 1, u.result, FALSE)
       ELSE Outcome(r3, 0, FreshResult, FALSE)

\* One Read operation of the loop of QRhiNull::resourceUpdate.
applyRead(u, curSize) ==
    LET r1 == [u.result EXCEPT !.format = readFormat(u)]
        r2 == [r1 EXCEPT !.pixelSize = readPixelSize(u, curSize)]
        byteSize == textureFormatInfo(r2.format, r2.pixelSize)
        r3 == [r2 EXCEPT !.data = fill(@, 0, byteSize)]
    IN IF u.completed THEN Outcome(r3, 1, r3, FALSE)
       ELSE Outcome(r3, 0, FreshResult, FALSE)

\* What a readback of the swapchain does when currentSwapChain is null: the
\* assertion fails or, without assertions, currentPixelSize() is called
\* through the null pointer; the process goes down or goes on with the size ub.
readWithoutSwapChain(u, ub) ==
    IF ub = InvalidSize THEN Outcome(u.result, 0, FreshResult, TRUE) ELSE applyRead(u, ub)

\* The loop of QRhiNull::resourceUpdate over the texture operations: the
\* outcomes up to the operation in which the process goes down, if any.
RECURSIVE applyOps(_, _, _, _)
applyOps(ops, cur, curSize, ub) ==
    IF ops = <<>> THEN <<>>
    ELSE LET u == Head(ops)
             out == IF u.type # "Read" THEN Outcome(u.result, 0, FreshResult, FALSE)
                    ELSE IF ~u.tex.null \/ cur THEN applyRead(u, curSize)
                    ELSE readWithoutSwapChain(u, ub)
         IN IF out.crashed THEN <<out>>
            ELSE <<out>> \o applyOps(Tail(ops), cur, curSize, ub)

\* QRhiNull::resourceUpdate: the operations applied and the batch freed.
resourceUpdate(ops, cur, curSize, ub) ==
    LET outs == applyOps(ops, cur, curSize, ub)
        crashed == \E i \in 1..Len(outs) : outs[i].crashed
    IN [passed |-> "batch", batch |-> ops, results |-> outs,
        freed |-> IF crashed THEN 0 ELSE 1]

\* The texture operations of the batches: an upload, readbacks of textures
\* of every format, of every size at every level, with and without a
\* callback, into fresh and used results, and readbacks of the swapchain.
ReadSizes == {QSize(1, 1), QSize(5, 3), QSize(64, 16)}
Upload == [type |-> "Upload", tex |-> NullTexture, level |-> 0, completed |-> FALSE,
           result |-> FreshResult]
TextureReads ==
    {[type |-> "Read", tex |-> TexturePtr(f, QSize(5, 3)), level |-> MaxLevel,
      completed |-> TRUE, result |-> UsedResult] : f \in Formats}
    \cup {[type |-> "Read", tex |-> TexturePtr("RGBA8", sz), level |-> l,
           completed |-> c, result |-> FreshResult] :
             sz \in ReadSizes, l \in 0..MaxLevel, c \in BOOLEAN}
SwapChainReads ==
    {[type |-> "Read", tex |-> NullTexture, level |-> 0, completed |-> c, result |-> r] :
        c \in BOOLEAN, r \in {FreshResult, UsedResult}}
SmallOps ==
    {Upload,
     [type |-> "Read", tex |-> TexturePtr("RGBA8", QSize(5, 3)), level |-> 1,
      completed |-> TRUE, result |-> UsedResult],
     [type |-> "Read", tex |-> NullTexture, level |-> 0, completed |-> TRUE,
      result |-> FreshResult]}

\* The batches of at most n operations of SmallOps.
RECURSIVE SmallBatches(_)
SmallBatches(n) ==
    IF n = 0 THEN {<<>>}
    ELSE LET prev == SmallBatches(n - 1)
         IN prev \cup {Append(b, u) : b \in prev, u \in SmallOps}

Batches == SmallBatches(MaxOps) \cup {<<u>> : u \in TextureReads \cup SwapChainReads}

\* What a batch applied while currentSwapChain is cur can read through the
\* null pointer: nothing (InvalidSize) or some size.
GarbageReads(ops, cur) ==
    IF ~cur /\ \E i \in 1..Len(ops) : ops[i].type = "Read" /\ ops[i].tex.null
    THEN {InvalidSize, QSize(5, 3)}
    ELSE {InvalidSize}

\* beginPass, endPass, beginComputePass or endComputePass handed a batch.
PassWithUpdates(op, ops) ==
    /\ Running
    /\ \E ub \in GarbageReads(ops, HasCurrentSwapChain) :
          /\ upd' = resourceUpdate(ops, HasCurrentSwapChain, sc.currentPixelSize, ub)
          /\ ret' = [op |-> op, result |-> IF upd'.freed = 0 THEN "crash" ELSE "void"]
    /\ UNCHANGED <<appVars, tokVars, codecVars, objVars, res, sc, sink, tally, frame, cap>>

\* beginPass, endPass, beginComputePass or endComputePass handed no batch.
PassWithoutUpdates(op) ==
    /\ Running
    /\ upd' = [upd EXCEPT !.passed = "null"]
    /\ ret' = [op |-> op, result |-> "void"]
    /\ UNCHANGED <<appVars, tokVars, codecVars, objVars, res, sc, sink, tally, frame, cap>>

QRhiNull_beginPass ==
    \/ \E ops \in Batches : PassWithUpdates("beginPass", ops)
    \/ PassWithoutUpdates("beginPass")

QRhiNull_endPass ==
    \/ \E ops \in SmallBatches(1) : PassWithUpdates("endPass", ops)
    \/ PassWithoutUpdates("endPass")

QRhiNull_beginComputePass ==
    \/ \E ops \in SmallBatches(1) : PassWithUpdates("beginComputePass", ops)
    \/ PassWithoutUpdates("beginComputePass")

QRhiNull_endComputePass ==
    \/ \E ops \in SmallBatches(1) : PassWithUpdates("endComputePass", ops)
    \/ PassWithoutUpdates("endComputePass")

PassOps == {"beginPass", "endPass", "beginComputePass", "endComputePass"}

InitReadback == tok = TokIdle /\ CodecAtRest /\ ObjectsAtRest /\ RhiAtRest

NextReadback ==
    \/ createSwapChain
    \/ QNullSwapChain_buildOrResize
    \/ QRhiNull_beginFrame("sc")
    \/ QRhiNull_endFrame("sc")
    \/ QRhiNull_beginPass
    \/ QRhiNull_endPass
    \/ QRhiNull_beginComputePass
    \/ QRhiNull_endComputePass

SpecReadback == InitReadback /\ [][NextReadback]_vars

\* The size of mip level l of a texture: halved l times, rounding down,
\* never below 1.
RECURSIVE Halved(_, _)
Halved(n, l) == IF l = 0 THEN n ELSE Halved(qMax(1, n \div 2), l - 1)

\* The readbacks of the batch applied last that named a texture, or none.
ReadsOf(null) ==
    {i \in 1..Len(upd.results) :
        upd.batch[i].type = "Read" /\ upd.batch[i].tex.null = null}

\* C14: the result of a readback of level L of a texture of format F and
\* size WxH has format F, the size of level L, and data of
\* (level width) x (level height) x (bytes per texel of F) bytes, all zero,
\* whatever the result held before.
ReadbackShape ==
    \A i \in ReadsOf(FALSE) :
        LET u == upd.batch[i]
            r == upd.results[i].result
            w == Halved(u.tex.pixelSize.w, u.level)
            h == Halved(u.tex.pixelSize.h, u.level)
        IN /\ ~upd.results[i].crashed
           /\ r.format = u.tex.format
           /\ r.pixelSize = QSize(w, h)
           /\ r.data.len = w * h * bytesPerTexel(u.tex.format)
           /\ r.data.values = {0}

\* C14's case: level 1 of a 5x3 RGBA16F texture was read into a result that
\* held three bytes of a BGRA8 pixel before.
SmallLevelRead ==
    \E i \in ReadsOf(FALSE) :
        /\ upd.batch[i].tex = TexturePtr("RGBA16F", QSize(5, 3))
        /\ upd.batch[i].level >= 1
        /\ upd.batch[i].result = UsedResult
        /\ upd.results[i].result.format = "RGBA16F"
        /\ upd.results[i].result.pixelSize.h = 1
        /\ upd.results[i].result.data.len = upd.results[i].result.pixelSize.w * 8

\* C15: a readback that names no texture, applied while a swapchain's frame
\* is active, yields RGBA8, the current pixel size of that swapchain, and
\* zeroes sized from the two.
SwapChainReadback ==
    (ret.op \in PassOps /\ upd.passed = "batch" /\ HasCurrentSwapChain) =>
        \A i \in ReadsOf(TRUE) :
            LET r == upd.results[i].result
            IN /\ ~upd.results[i].crashed
               /\ r.format = "RGBA8"
               /\ r.pixelSize = sc.currentPixelSize
               /\ r.data = fill(r.data, 0, sc.currentPixelSize.w * sc.currentPixelSize.h * 4)

\* C15's case: the swapchain was read back in a frame after buildOrResize.
SwapChainReadInFrame ==
    /\ ret.op \in PassOps
    /\ upd.passed = "batch"
    /\ HasCurrentSwapChain
    /\ sc.builds >= 1
    /\ \E i \in ReadsOf(TRUE) :
          upd.results[i].result
              = ReadbackResult("RGBA8", QSize(1280, 720), ByteArray(3686400, {0}))

\* What a pass call that returned left of the batch it was handed: every
\* operation gone through, each callback that was set run once and after
\* the result was filled in, no other callback run, the batch freed once.
BatchApplied ==
    (ret.op \in PassOps /\ upd.passed = "batch" /\ Running) =>
        /\ Len(upd.results) = Len(upd.batch)
        /\ upd.freed = 1
        /\ \A i \in 1..Len(upd.results) :
              LET u == upd.batch[i]
                  o == upd.results[i]
              IN /\ o.calls = IF u.type = "Read" /\ u.completed THEN 1 ELSE 0
                 /\ o.calls = 1 => /\ o.seen = o.result
                                   /\ o.seen.data.values = {0}
                 /\ u.type # "Read" => o.result = u.result

\* C16: a batch handed to beginPass, endPass, beginComputePass or
\* endComputePass is applied when the call returns, with every completion
\* callback run once and after its result was filled in and the batch freed
\* once; a call handed no batch changes nothing.
UpdateBatchOrdering ==
    /\ []BatchApplied
    /\ [][(ret'.op \in PassOps /\ upd'.passed = "null") =>
              /\ upd'.results = upd.results
              /\ upd'.freed = upd.freed
              /\ UNCHANGED <<res, sc, sink, tally, frame, cap>>]_vars

\* C16's case: a pass call returned from a batch of two readbacks with
\* callbacks, the first into a result that held data before.
TwoReadbacksCompleted ==
    /\ ret.op \in PassOps
    /\ upd.passed = "batch"
    /\ Len(upd.batch) = 2
    /\ upd.freed = 1
    /\ upd.batch[1].result = UsedResult
    /\ \A i \in 1..2 : upd.batch[i].type = "Read" /\ upd.results[i].calls = 1

(***************************************************************************)
(* The root keys of the document.                                          *)
(***************************************************************************)
\* C21: the document toBinaryJson makes holds the root key of a collection
\* exactly when the collection is not empty, and a collection whose root key
\* the decoded document lacks is empty in the description decoded.
RootKeysOptional ==
    /\ Encoded =>
          \A c \in Collections :
              contains(cbytes.body, RootKey(c)) <=> cdesc[c] # <<>>
    /\ cphase = "decoded" =>
          \A c \in Collections :
              ~contains(object(fromBinaryData(cbytes)), RootKey(c)) => cback[c] = <<>>

\* C21's case: a description with inputs and no outputs went through the
\* codec; the inputs key was there, the outputs key was not.
RootKeyLeftOut ==
    /\ RoundTripped
    /\ cdesc.inVars # <<>>
    /\ cdesc.outVars = <<>>
    /\ contains(cbytes.body, inputsKey)
    /\ ~contains(cbytes.body, outputsKey)
    /\ cback.inVars # <<>>
    /\ cback.outVars = <<>>

(***************************************************************************)
(* The lifetime of the shared payload.                                     *)
(***************************************************************************)
\* The live description objects whose d is payload p.
Owners(p) == {o \in Objs : d[o] = p}

\* C22: the reference count of a payload is the number of live objects that
\* point to it, a payload is live exactly while it has an owner and is deleted
\* when the last one lets go of it, and no live object points to a deleted
\* payload.
SharedPayloadLifetime ==
    /\ \A p \in PayloadIds :
          /\ heap[p].state = "live" =>
                heap[p].ref = Cardinality(Owners(p)) /\ heap[p].ref >= 1
          /\ heap[p].state = "free" => heap[p] = FreePayload /\ Owners(p) = {}
    /\ \A o \in Objs : Exists(o) => heap[d[o]].state = "live"

\* C22's case: the last owner was destroyed and no payload is left.
LastOwnerReleased ==
    /\ last.op = "destruct"
    /\ \A o \in Objs : ~Exists(o)
    /\ \A p \in PayloadIds : heap[p] = FreePayload

(***************************************************************************)
(* Two threads on copies of one description.  SpecThreads.                 *)
(* Thread A owns object 1, detaches it and appends an entry; thread B owns *)
(* the other objects and reads, copies and destroys them.  Every access to *)
(* the reference count is one step; the steps of the two interleave.       *)
(***************************************************************************)
ThreadObjs == 1..(MaxObjs + 1)
ObjsOfB == ThreadObjs \ {1}

\* The test of qAtomicDetach taken away: d is never replaced by a copy.
detachNever(ref) == FALSE

\* qAtomicDetach: `if (d->ref.load() == 1) return;`
mustDetach(ref) == ref # 1

\* What has gone wrong so far, with what this step does wrong added.
Fault(wrong, kind) ==
    IF thr.fault # "none" THEN thr.fault ELSE IF wrong THEN kind ELSE "none"

Freed(p) == heap[p].state = "free"

\* A: detach(), the load of the reference count.
A_detach_load ==
    /\ thr.a.pc = "idle"
    /\ thr.a.muts <= MaxMutations
    /\ thr' = [thr EXCEPT !.a.pc = IF mustDetach(heap[d[1]].ref) THEN "copy" ELSE "write",
                          !.a.x = d[1],
                          !.fault = Fault(Freed(d[1]), "useAfterFree")]
    /\ UNCHANGED <<appVars, tokVars, codecVars, rhiVars, d, heap, last>>

\* A: qAtomicDetach, `T *x = d; d = new T(*d);`
A_detach_copy ==
    /\ thr.a.pc = "copy"
    /\ HasFree(heap)
    /\ LET n == alloc(heap)
       IN /\ heap' = newPrivate(heap, n, heap[thr.a.x].data)
          /\ d' = [d EXCEPT ![1] = n]
    /\ thr' = [thr EXCEPT !.a.pc = "deref",
                          !.fault = Fault(Freed(thr.a.x), "useAfterFree")]
    /\ UNCHANGED <<appVars, tokVars, codecVars, rhiVars, last>>

\* A: qAtomicDetach, `x->ref.deref()`
A_detach_deref ==
    /\ thr.a.pc = "deref"
    /\ heap' = [heap EXCEPT ![thr.a.x].ref = @ - 1]
    /\ thr' = [thr EXCEPT !.a.pc = IF heap[thr.a.x].ref - 1 = 0 THEN "delete" ELSE "write",
                          !.fault = Fault(Freed(thr.a.x), "useAfterFree")]
    /\ UNCHANGED <<appVars, tokVars, codecVars, rhiVars, d, last>>

\* A: qAtomicDetach, `delete x`
A_detach_delete ==
    /\ thr.a.pc = "delete"
    /\ heap' = [heap EXCEPT ![thr.a.x] = FreePayload]
    /\ thr' = [thr EXCEPT !.a.pc = "write",
                          !.fault = Fault(Freed(thr.a.x), "doubleFree")]
    /\ UNCHANGED <<appVars, tokVars, codecVars, rhiVars, d, last>>

\* A: an entry appended to collection c of the payload d points to.  It is
\* a race when B can reach that payload.
A_mutate(c) ==
    /\ thr.a.pc = "write"
    /\ heap' = [heap EXCEPT ![d[1]].data[c] = Append(@, MutationEntry(c))]
    /\ thr' = [thr EXCEPT !.a.pc = "idle",
                          !.a.muts = @ + 1,
                          !.fault = Fault(\/ \E o \in ObjsOfB : d[o] = d[1]
                                          \/ thr.b.pc # "idle" /\ thr.b.x = d[1],
                                          "race")]
    /\ UNCHANGED <<appVars, tokVars, codecVars, rhiVars, d, last>>

\* B: the accessors called on object o.
B_read(o) ==
    /\ thr.b.pc = "idle"
    /\ Exists(o)
    /\ thr' = [thr EXCEPT !.seen = [what |-> IF heap[d[o]].data = thr.orig
                                              THEN "original" ELSE "other",
                                    after |-> thr.a.muts],
                          !.fault = Fault(Freed(d[o]), "useAfterFree")]
    /\ UNCHANGED <<appVars, tokVars, codecVars, rhiVars, d, heap, last>>

\* B: QShaderDescription o2(o), the initialiser `d(other.d)`.
B_copy_init(o, o2) ==
    /\ thr.b.pc = "idle"
    /\ Exists(o)
    /\ ~Exists(o2)
    /\ d' = [d EXCEPT ![o2] = d[o]]
    /\ thr' = [thr EXCEPT !.b.pc = "ref", !.b.x = d[o]]
    /\ UNCHANGED <<appVars, tokVars, codecVars, rhiVars, heap, last>>

\* B: QShaderDescription o2(o), `d->ref.ref()`.
B_copy_ref ==
    /\ thr.b.pc = "ref"
    /\ heap' = [heap EXCEPT ![thr.b.x].ref = @ + 1]
    /\ thr' = [thr EXCEPT !.b.pc = "idle",
                          !.fault = Fault(Freed(thr.b.x), "useAfterFree")]
    /\ UNCHANGED <<appVars, tokVars, codecVars, rhiVars, d, last>>

\* B: ~QShaderDescription() of o, `d->ref.deref()`.
B_destruct_deref(o) ==
    /\ thr.b.pc = "idle"
    /\ Exists(o)
    /\ heap' = [heap EXCEPT ![d[o]].ref = @ - 1]
    /\ d' = [d EXCEPT ![o] = 0]
    /\ thr' = [thr EXCEPT !.b.pc = IF heap[d[o]].ref - 1 = 0 THEN "delete" ELSE "idle",
                          !.b.x = d[o],
                          !.fault = Fault(Freed(d[o]), "useAfterFree")]
    /\ UNCHANGED <<appVars, tokVars, codecVars, rhiVars, last>>

\* B: ~QShaderDescription(), `delete d`.
B_destruct_delete ==
    /\ thr.b.pc = "delete"
    /\ heap' = [heap EXCEPT ![thr.b.x] = FreePayload]
    /\ thr' = [thr EXCEPT !.b.pc = "idle",
                          !.fault = Fault(Freed(thr.b.x), "doubleFree")]
    /\ UNCHANGED <<appVars, tokVars, codecVars, rhiVars, d, last>>

\* The contents of the description the two threads start from.
SharedContents ==
    {NewPrivate,
     [NewPrivate EXCEPT !.outVars = <<MutationEntry("outVars")>>],
     [NewPrivate EXCEPT !.uniformBlocks = <<MutationEntry("uniformBlocks")>>]}

\* Object 1 of A and object 2 of B are copies of one description.
InitThreads ==
    /\ tok = TokIdle
    /\ CodecAtRest
    /\ RhiAtRest
    /\ \E data \in SharedContents :
          /\ thr = [NoThreads EXCEPT !.orig = data]
          /\ heap = [p \in PayloadIds |->
                        IF p = 1 THEN [state |-> "live", ref |-> 2, data |-> data]
                        ELSE FreePayload]
    /\ d = [o \in ThreadObjs |-> IF o \in {1, 2} THEN 1 ELSE 0]
    /\ last = [op |-> "none", obj |-> 0, doc |-> "none", shared |-> FALSE]

NextThreads ==
    \/ A_detach_load
    \/ A_detach_copy
    \/ A_detach_deref
    \/ A_detach_delete
    \/ \E c \in MutatedCollections : A_mutate(c)
    \/ \E o \in ObjsOfB : B_read(o)
    \/ \E o \in ObjsOfB, o2 \in ObjsOfB : B_copy_init(o, o2)
    \/ B_copy_ref
    \/ \E o \in ObjsOfB : B_destruct_deref(o)
    \/ B_destruct_delete

SpecThreads == InitThreads /\ [][NextThreads]_vars

\* The objects whose d is payload p, and the references to p that a thread
\* holds or is about to take besides: A's to the payload it detached from
\* and has not let go of, B's that its new copy has not counted yet.
ThreadOwners(p) == {o \in ThreadObjs : d[o] = p}
HeldByA(p) == IF thr.a.pc = "deref" /\ thr.a.x = p THEN 1 ELSE 0
UncountedByB(p) == IF thr.b.pc = "ref" /\ thr.b.x = p THEN 1 ELSE 0
DeleteDue(p) ==
    (IF thr.a.pc = "delete" /\ thr.a.x = p THEN 1 ELSE 0)
    + (IF thr.b.pc = "delete" /\ thr.b.x = p THEN 1 ELSE 0)

\* C23: under every interleaving of A's detach-and-mutate with B's reads,
\* copies and destructions, B reads only the original contents, no step
\* touches a deleted payload, deletes one twice or writes what the other
\* thread can reach, every reference count accounts for every owner, and a
\* payload without references is deleted by exactly one thread.
ConcurrentCopyOnWrite ==
    /\ thr.fault = "none"
    /\ thr.seen.what \in {"none", "original"}
    /\ \A o \in ThreadObjs : Exists(o) => ~Freed(d[o])
    /\ \A p \in PayloadIds :
          /\ ~Freed(p) =>
                /\ heap[p].ref = Cardinality(ThreadOwners(p)) + HeldByA(p) - UncountedByB(p)
                /\ heap[p].ref >= 0
                /\ DeleteDue(p) = IF heap[p].ref = 0 THEN 1 ELSE 0
          /\ Freed(p) => heap[p] = FreePayload /\ DeleteDue(p) = 0

\* C23's case: A detached from the shared payload and appended an entry to
\* its copy, and B read the original contents through its own object after
\* that.
ReadAfterConcurrentMutation ==
    /\ thr.a.muts >= 1
    /\ thr.seen = [what |-> "original", after |-> thr.a.muts]
    /\ d[1] # 1
    /\ heap[d[1]].data # thr.orig
    /\ \E o \in ObjsOfB : d[o] = 1 /\ heap[1].data = thr.orig

(***************************************************************************)
(* Offsets and sizes of blocks and their members.                          *)
(***************************************************************************)
\* The members of a block with the struct members below them, and the same
\* for the member objects of a document.
RECURSIVE MembersBelow(_)
MembersBelow(ms) ==
    UNION {{ms[i]} \cup MembersBelow(ms[i].structMembers) : i \in 1..Len(ms)}

RECURSIVE MemberObjectsBelow(_)
MemberObjectsBelow(arr) ==
    UNION {{toObject(arr[i])}
               \cup MemberObjectsBelow(toArray(value(toObject(arr[i]), structMembersKey))) :
           i \in 1..Len(arr)}

\* C24: every member object of the document toBinaryJson makes holds an
\* offset and a size, and in a description decoded the offset and size of
\* every block member and the size and knownSize of every block are not
\* below 0.
OffsetsAndSizes ==
    /\ Encoded =>
          \A c \in BlockCollections : \A i \in 1..Len(cdesc[c]) :
              \A obj \in MemberObjectsBelow(toArray(value(EntryObject(c, i), membersKey))) :
                  contains(obj, offsetKey) /\ contains(obj, sizeKey)
    /\ cphase = "decoded" =>
          /\ \A c \in BlockCollections : \A i \in 1..Len(cback[c]) :
                \A m \in MembersBelow(cback[c][i].members) : m.offset >= 0 /\ m.size >= 0
          /\ \A i \in 1..Len(cback.uniformBlocks) : cback.uniformBlocks[i].size >= 0
          /\ \A i \in 1..Len(cback.pushConstantBlocks) : cback.pushConstantBlocks[i].size >= 0
          /\ \A i \in 1..Len(cback.storageBlocks) : cback.storageBlocks[i].knownSize >= 0

(***************************************************************************)
(* The destructive load.                                                   *)
(***************************************************************************)
\* C25: loadDoc, reached through fromBinaryJson, finds a reference count of
\* 1 on the payload it clears and fills, the description returned is the
\* payload's only owner, and what every other object reads stays as it was.
UniqueOwnershipAtLoad ==
    /\ [](last.op = "fromBinaryJson" =>
            /\ last.ref = 1
            /\ heap[d[last.obj]].ref = 1
            /\ Owners(d[last.obj]) = {last.obj})
    /\ [][\A o \in Objs :
            (last'.op = "fromBinaryJson" /\ last'.obj = o) =>
                \A x \in Objs \ {o} :
                    Exists(x) => Exists(x)' /\ d'[x] = d[x] /\ Read(x)' = Read(x)]_vars

\* C25's case: a document with entries was loaded while another object held
\* a description of its own with an entry.
LoadedBesideAnother ==
    /\ last.op = "fromBinaryJson"
    /\ last.doc = "entries"
    /\ isValid(Read(last.obj))
    /\ \E x \in Objs \ {last.obj} : Exists(x) /\ isValid(Read(x))

(***************************************************************************)
(* The current swapchain of the device.                                    *)
(***************************************************************************)
\* C26: currentSwapChain is not null exactly while a swapchain frame is
\* active, between a beginFrame and the next endFrame, and is then the
\* swapchain the latest beginFrame was handed; endFrame clears it whatever
\* swapchain it is called for; the offscreen frame calls and finish leave
\* it as it is.
CurrentSwapChainTracking ==
    /\ [](/\ HasCurrentSwapChain <=> FrameActive
          /\ FrameActive => frame.currentSwapChain = frame.begunOn
          /\ ret.op = "endFrame" => frame.currentSwapChain = "nullptr")
    /\ [][ret'.op \in {"beginOffscreenFrame", "endOffscreenFrame", "finish"} =>
              frame'.currentSwapChain = frame.currentSwapChain]_vars

\* C26's case: a frame begun on one swapchain was ended by an endFrame for
\* the other one, inside an offscreen frame.
FrameEndedOnOtherSwapChain ==
    /\ ret.op = "endFrame"
    /\ ret.begunOn = "sc"
    /\ ret.swapChain = "other"
    /\ frame.otherFrames = 1
    /\ frame.ended = 0
    /\ sc.builds >= 1
    /\ frame.offscreen
    /\ frame.currentSwapChain = "nullptr"

(***************************************************************************)
(* The assertion of the swapchain readback.                                *)
(***************************************************************************)
\* C27: a batch with a readback that names no texture is applied only while
\* currentSwapChain is not null: Q_ASSERT(currentSwapChain) holds whenever
\* resourceUpdate comes to it, and no pass call goes down there.
SwapChainReadbackAsserted ==
    (ret.op \in PassOps /\ upd.passed = "batch" /\ ReadsOf(TRUE) # {}) =>
        /\ HasCurrentSwapChain
        /\ ret.result # "crash"
        /\ \A i \in ReadsOf(TRUE) : ~upd.results[i].crashed

(***************************************************************************)
(* The mip levels and layers a texture reports.                            *)
(***************************************************************************)
\* The length of the mip chain of a texture whose larger side is n: the
\* levels there are when n is halved, rounding down, until it is 1.
RECURSIVE MipChainLength(_)
MipChainLength(n) == IF n <= 1 THEN 1 ELSE 1 + MipChainLength(n \div 2)

\* C28: build() and buildFrom() of a texture report 6 layers for a cube map
\* and 1 otherwise, and 1 mip level without MipMapped and else the length
\* of the full mip chain of the size, an empty size counting as 1x1.
MipLevelAccounting ==
    (res.kind = "texture" /\ ret.op \in {"build", "buildFrom"}) =>
        LET size == IF QSize_isEmpty(res.params.pixelSize) THEN QSize(1, 1)
                    ELSE res.params.pixelSize
        IN /\ sink.ev = "newTexture"
           /\ sink.args[3] = IF res.params.cube THEN 6 ELSE 1
           /\ sink.args[2] = IF res.params.mip
                             THEN MipChainLength(qMax(size.w, size.h)) ELSE 1

(***************************************************************************)
(* The compute-image example: Window::customInit and customRender.         *)
(* SpecExample.                                                            *)
(***************************************************************************)
\* The statements of Window::customInit in their order: the feature test,
\* the initial batch, and for each resource its creation, its build, its
\* entry into the release pool and the upload queued for it.
InitSteps ==
    << <<"require", "Compute">>, <<"nextResourceUpdateBatch", "initialUpdates">>,
       <<"new", "texIn">>, <<"build", "texIn">>, <<"pool", "texIn">>,
       <<"new", "texOut">>, <<"build", "texOut">>, <<"pool", "texOut">>,
       <<"upload", "texIn">>,
       <<"new", "computeUBuf">>, <<"build", "computeUBuf">>, <<"pool", "computeUBuf">>,
       <<"new", "computeBindings">>, <<"build", "computeBindings">>,
       <<"pool", "computeBindings">>,
       <<"new", "computePipeline">>, <<"build", "computePipeline">>,
       <<"pool", "computePipeline">>,
       <<"new", "vbuf">>, <<"build", "vbuf">>, <<"pool", "vbuf">>, <<"upload", "vbuf">>,
       <<"new", "ibuf">>, <<"build", "ibuf">>, <<"pool", "ibuf">>, <<"upload", "ibuf">>,
       <<"new", "ubuf">>, <<"build", "ubuf">>, <<"pool", "ubuf">>, <<"upload", "ubuf">>,
       <<"new", "sampler">>, <<"pool", "sampler">>, <<"build", "sampler">>,
       <<"new", "srb">>, <<"pool", "srb">>, <<"build", "srb">>,
       <<"new", "ps">>, <<"pool", "ps">>, <<"build", "ps">> >>

\* The example after one statement of customInit.
initStep(e, st) ==
    CASE st[1] = "require" ->
            IF isFeatureSupported(st[2]) THEN e ELSE [e EXCEPT !.pc = "fatal"]
      [] st[1] = "nextResourceUpdateBatch" -> [e EXCEPT !.initialUpdates = "batch"]
      [] st[1] = "new" -> [e EXCEPT !.created = @ \cup {st[2]}]
      [] st[1] = "build" -> [e EXCEPT !.built = @ \cup {st[2]}]
      [] st[1] = "pool" -> [e EXCEPT !.releasePool = Append(@, st[2])]
      [] st[1] = "upload" -> [e EXCEPT !.initial = @ \cup {st[2]}]

\* Window::customInit, statement by statement.
Window_customInit ==
    /\ ex.pc = "init"
    /\ LET e == initStep([ex EXCEPT !.i = @ + 1], InitSteps[ex.i + 1])
       IN ex' = IF e.pc = "init" /\ e.i = Len(InitSteps) THEN [e EXCEPT !.pc = "idle", !.i = 0]
                ELSE e
    /\ UNCHANGED <<tokVars, codecVars, objVars, rhiVars>>

\* customRender with `d.initialUpdates = nullptr` left out.
mergeInitialUpdatesKept(e) ==
    IF e.initialUpdates # "nullptr"
    THEN [e EXCEPT !.u = @ \cup e.initial, !.merged = @ + 1, !.mergedIn = e.frames + 1,
                   !.released = @ + 1]
    ELSE e

\* customRender: `if (d.initialUpdates) { u->merge(d.initialUpdates);
\* d.initialUpdates->release(); d.initialUpdates = nullptr; }`
mergeInitialUpdates(e) ==
    IF e.initialUpdates # "nullptr"
    THEN [e EXCEPT !.u = @ \cup e.initial, !.merged = @ + 1, !.mergedIn = e.frames + 1,
                   !.released = @ + 1, !.initialUpdates = "nullptr"]
    ELSE e

\* customRender: the matrix is queued when the projection has changed.
updateProjection(e) ==
    IF e.projStale THEN [e EXCEPT !.projStale = FALSE, !.u = @ \cup {"mvp"}] ELSE e

\* The first part of Window::customRender: the frame's batch is taken and
\* filled.
Window_customRender ==
    /\ ex.pc = "idle"
    /\ ex.frames <= MaxFrames
    /\ LET e0 == [ex EXCEPT !.u = {}, !.cmds = <<>>, !.pc = "render", !.i = 0]
           e1 == updateProjection(mergeInitialUpdates(e0))
       IN ex' = [e1 EXCEPT !.u = @ \cup {"factor"}]
    /\ UNCHANGED <<tokVars, codecVars, objVars, rhiVars>>

\* customRender with drawIndexed after endPass.
RenderCommandsDrawOutside ==
    <<"beginComputePass", "setComputePipeline", "setShaderResources", "dispatch",
      "endComputePass", "beginPass", "setGraphicsPipeline", "setViewport",
      "setShaderResources", "setVertexInput", "endPass", "drawIndexed">>

\* The calls customRender makes on the command buffer, in their order.
RenderCommands ==
    <<"beginComputePass", "setComputePipeline", "setShaderResources", "dispatch",
      "endComputePass", "beginPass", "setGraphicsPipeline", "setViewport",
      "setShaderResources", "setVertexInput", "drawIndexed", "endPass">>

\* The command buffer after a call: the pass it is in, the pipelines bound,
\* and the first call made where it may not be made.
recorded(cb, cmd) ==
    LET wrong ==
            CASE cmd \in {"beginComputePass", "beginPass"} -> cb.pass # "none"
              [] cmd \in {"setComputePipeline", "endComputePass"} -> cb.pass # "compute"
              [] cmd = "dispatch" -> cb.pass # "compute" \/ ~cb.compute
              [] cmd \in {"setGraphicsPipeline", "setViewport", "setVertexInput", "endPass"} ->
                    cb.pass # "raster"
              [] cmd = "drawIndexed" -> cb.pass # "raster" \/ ~cb.graphics
              [] cmd = "setShaderResources" ->
                    ~(cb.pass = "compute" /\ cb.compute) /\ ~(cb.pass = "raster" /\ cb.graphics)
        next ==
            CASE cmd = "beginComputePass" -> [cb EXCEPT !.pass = "compute"]
              [] cmd = "beginPass" -> [cb EXCEPT !.pass = "raster"]
              [] cmd = "setComputePipeline" -> [cb EXCEPT !.compute = TRUE]
              [] cmd = "setGraphicsPipeline" -> [cb EXCEPT !.graphics = TRUE]
              [] cmd = "endComputePass" -> [cb EXCEPT !.pass = "none", !.compute = FALSE]
              [] cmd = "endPass" -> [cb EXCEPT !.pass = "none", !.graphics = FALSE]
              [] OTHER -> cb
    IN [next EXCEPT !.misuse = IF cb.misuse = "none" /\ wrong THEN cmd ELSE cb.misuse]

\* The second part of Window::customRender, call by call.
Window_customRender_record ==
    /\ ex.pc = "render"
    /\ LET cmd == RenderCommands[ex.i + 1]
           e == [ex EXCEPT !.i = @ + 1, !.cmds = Append(@, cmd), !.cb = recorded(@, cmd)]
       IN ex' = IF e.i = Len(RenderCommands)
                THEN [e EXCEPT !.pc = "idle", !.i = 0, !.frames = @ + 1]
                ELSE e
    /\ UNCHANGED <<tokVars, codecVars, objVars, rhiVars>>

\* The window is resized between two frames: the projection changes.
Window_resized ==
    /\ ex.pc = "idle"
    /\ ~ex.projStale
    /\ ex' = [ex EXCEPT !.projStale = TRUE]
    /\ UNCHANGED <<tokVars, codecVars, objVars, rhiVars>>

InitExample ==
    /\ tok = TokIdle
    /\ CodecAtRest
    /\ ObjectsAtRest
    /\ DeviceAtRest
    /\ ex = [NoExample EXCEPT !.pc = "init"]

NextExample ==
    \/ Window_customInit
    \/ Window_customRender
    \/ Window_customRender_record
    \/ Window_resized

SpecExample == InitExample /\ [][NextExample]_vars

\* The order of the calls of a frame.
CommandOrder ==
    <<"beginComputePass", "setComputePipeline", "setShaderResources", "dispatch",
      "endComputePass", "beginPass", "setGraphicsPipeline", "setViewport",
      "setShaderResources", "setVertexInput", "drawIndexed", "endPass">>

\* C29: the calls of every frame are recorded in the order beginComputePass,
\* setComputePipeline, setShaderResources, dispatch, endComputePass,
\* beginPass, setGraphicsPipeline, setViewport, setShaderResources,
\* setVertexInput, drawIndexed, endPass: every call is made inside its pass
\* and after its pipeline is bound, no pass begins inside another, and no
\* pass is open when the recording returns.
PassBracketing ==
    /\ ex.cb.misuse = "none"
    /\ ex.pc = "render" => ex.cmds = SubSeq(CommandOrder, 1, Len(ex.cmds))
    /\ (ex.pc = "idle" /\ ex.frames >= 1) => ex.cmds = CommandOrder /\ ex.cb.pass = "none"
    /\ ex.pc # "render" => ex.cb.pass = "none"

\* C29's case: the second frame is recorded up to drawIndexed, inside the
\* raster pass with the graphics pipeline bound.
DrawRecordedInSecondFrame ==
    /\ ex.pc = "render"
    /\ ex.frames = 1
    /\ Len(ex.cmds) = 11
    /\ ex.cmds[11] = "drawIndexed"
    /\ ex.cb.pass = "raster"
    /\ ex.cb.graphics

\* The resources the passes of a frame use, by name or through the bindings
\* and pipelines, and the uploads customInit queues.
UsedByFrame ==
    {"texIn", "texOut", "computeUBuf", "computeBindings", "computePipeline",
     "vbuf", "ibuf", "ubuf", "sampler", "srb", "ps"}
InitialUploads == {"texIn", "vbuf", "ibuf", "ubuf"}

\* C30: the initial batch is merged into a frame's batch once, in the first
\* frame, released and cleared right then, and never merged or released
\* again; every resource the first frame uses was built by customInit
\* before the frame is recorded.
InitialUploadsOnce ==
    /\ ex.merged <= 1 /\ ex.released = ex.merged
    /\ ex.pc = "init" => ex.merged = 0
    /\ (ex.pc = "render" \/ ex.frames >= 1) =>
          /\ ex.merged = 1
          /\ ex.mergedIn = 1
          /\ ex.initialUpdates = "nullptr"
    /\ ex.pc = "render" =>
          /\ UsedByFrame \subseteq ex.built
          /\ IF ex.frames = 0 THEN InitialUploads \subseteq ex.u
             ELSE ex.u \cap InitialUploads = {}

\* C30's case: the second frame is being recorded, with a batch that holds
\* none of the initial uploads; the first one had merged them.
SecondFrameWithoutInitialUploads ==
    /\ ex.pc = "render"
    /\ ex.frames = 1
    /\ ex.merged = 1
    /\ ex.released = 1
    /\ ex.u = {"factor"}
    /\ ex.initial = InitialUploads

====
